---- MODULE Spec2Model ----
(***************************************************************************)
(* Model of the gas / compressed-air line sizing engine                    *)
(* (src/services/sizingService.ts) and of the data it works on.            *)
(*                                                                         *)
(* Numbers.  The engine computes with IEEE doubles.  They are modelled as  *)
(* binary floating point numbers <<m, e>> of value m * 2^e with a 15 bit   *)
(* mantissa (m = 0, or 2^14 <= |m| < 2^15), rounded toward zero, with the  *)
(* three special values Infinity, -Infinity and NaN and the arithmetic     *)
(* rules JavaScript gives them (x/0, Inf-Inf, comparisons with NaN, ...).  *)
(* Exponent overflow/underflow and the sign of zero are not modelled.      *)
(* Integers of magnitude below 2^15 are exact, as small integers are in a  *)
(* double.                                                                 *)
(*                                                                         *)
(* Style.  An intermediate value that the code names and then uses more    *)
(* than once is passed on as an operator parameter rather than bound by    *)
(* LET, so every operator body is mentioned once on each path from Next.   *)
(***************************************************************************)
EXTENDS Integers, Sequences, FiniteSets, TLC

Abs(n) == IF n < 0 THEN -n ELSE n

Sgn(n) == IF n < 0 THEN -1 ELSE IF n > 0 THEN 1 ELSE 0

(* Exponent tag of the special values. *)
SpecialExp == 2^20

NaN == <<0, SpecialExp>>

Infinity == <<1, SpecialExp>>

NegInfinity == <<-1, SpecialExp>>

Zero == <<0, 0>>

IsNaN(x) == x[2] = SpecialExp /\ x[1] = 0

IsInf(x) == x[2] = SpecialExp /\ x[1] # 0

(* m / k rounded toward zero, k > 0. *)
Quot(m, k) == IF m >= 0 THEN m \div k ELSE -((-m) \div k)

(* The float of value m * 2^e for 2^(k-1) <= |m| < 2^k. *)
Shifted(m, e, k) ==
  IF k > 15 THEN <<Quot(m, 2^(k - 15)), e + (k - 15)>>
  ELSE <<m * (2^(15 - k)), e - (15 - k)>>

(* The float of value m * 2^e, 0 < a = |m| < 2^31, found by halving a; k   *)
(* counts the bits halved away.                                             *)
RECURSIVE Normalize(_, _, _, _)
Normalize(m, e, a, k) ==
  IF a >= 1073741824 THEN Shifted(m, e, k + 31)
  ELSE IF a >= 536870912 THEN Shifted(m, e, k + 30)
  ELSE IF a >= 65536 THEN Normalize(m, e, a \div 65536, k + 16)
  ELSE IF a >= 256 THEN Normalize(m, e, a \div 256, k + 8)
  ELSE IF a >= 16 THEN Normalize(m, e, a \div 16, k + 4)
  ELSE IF a >= 2 THEN Normalize(m, e, a \div 2, k + 1)
  ELSE Shifted(m, e, k + 1)

(* The float of value m * 2^e, |m| < 2^31, rounded toward zero. *)
Norm(m, e) == IF m = 0 THEN Zero ELSE Normalize(m, e, Abs(m), 0)

FromInt(n) == Norm(n, 0)

FNeg(x) == <<-x[1], x[2]>>

FAbs(x) == <<Abs(x[1]), x[2]>>

(* x + y when one of them is not finite. *)
AddSpecial(x, y) ==
  IF IsNaN(x) \/ IsNaN(y) THEN NaN
  ELSE IF IsInf(x) THEN (IF IsInf(y) /\ x[1] # y[1] THEN NaN ELSE x)
  ELSE y

(* big + sm for finite non-zero floats, the exponent of big the larger by d. *)
AddAligned(big, sm, d) ==
  IF d > 30 THEN big
  ELSE Norm(big[1] * 32768
              + (IF d >= 15 THEN Quot(sm[1], 2^(d - 15)) ELSE sm[1] * (2^(15 - d))),
            big[2] - 15)

FAdd(x, y) ==
  IF x[2] = SpecialExp \/ y[2] = SpecialExp THEN AddSpecial(x, y)
  ELSE IF x[1] = 0 THEN y
  ELSE IF y[1] = 0 THEN x
  ELSE AddAligned(IF x[2] >= y[2] THEN x ELSE y, IF x[2] >= y[2] THEN y ELSE x,
                  Abs(x[2] - y[2]))

FSub(x, y) == FAdd(x, <<-y[1], y[2]>>)

(* x * y when one of them is not finite. *)
MulSpecial(x, y) ==
  IF IsNaN(x) \/ IsNaN(y) \/ x[1] = 0 \/ y[1] = 0 THEN NaN
  ELSE <<Sgn(x[1]) * Sgn(y[1]), SpecialExp>>

(* The product p of two mantissas, 2^28 <= |p| < 2^30, as a float times 2^e. *)
MulNorm(p, e) ==
  IF p >= 536870912 \/ p <= -536870912 THEN <<Quot(p, 32768), e + 15>>
  ELSE <<Quot(p, 16384), e + 14>>

FMul(x, y) ==
  IF x[2] = SpecialExp \/ y[2] = SpecialExp THEN MulSpecial(x, y)
  ELSE IF x[1] = 0 \/ y[1] = 0 THEN Zero
  ELSE MulNorm(x[1] * y[1], x[2] + y[2])

(* x / y when one of them is not finite or y is zero. *)
DivSpecial(x, y) ==
  IF IsNaN(x) \/ IsNaN(y) THEN NaN
  ELSE IF IsInf(x)
       THEN (IF IsInf(y) THEN NaN
             ELSE <<Sgn(x[1]) * (IF y[1] < 0 THEN -1 ELSE 1), SpecialExp>>)
  ELSE IF IsInf(y) THEN Zero
  ELSE IF x[1] = 0 THEN NaN
  ELSE <<Sgn(x[1]) * (IF y[1] < 0 THEN -1 ELSE 1), SpecialExp>>

(* The quotient q of two mantissas scaled by 2^15, 2^14 < |q| < 2^16. *)
DivNorm(q, e) ==
  IF q >= 32768 \/ q <= -32768 THEN <<Quot(q, 2), e + 1>> ELSE <<q, e>>

FDiv(x, y) ==
  IF x[2] = SpecialExp \/ y[2] = SpecialExp \/ y[1] = 0 THEN DivSpecial(x, y)
  ELSE IF x[1] = 0 THEN Zero
  ELSE DivNorm(Quot(x[1] * 32768, Abs(y[1])) * Sgn(y[1]), x[2] - y[2] - 15)

(* -1, 0, 1 as x < y, x = y, x > y; 2 when unordered (a NaN). *)
FCmp(x, y) ==
  IF x[2] = SpecialExp \/ y[2] = SpecialExp
  THEN (IF IsNaN(x) \/ IsNaN(y) THEN 2
        ELSE Sgn((IF IsInf(x) THEN x[1] ELSE 0) - (IF IsInf(y) THEN y[1] ELSE 0)))
  ELSE IF x[1] = 0 \/ y[1] = 0 \/ Sgn(x[1]) # Sgn(y[1])
       THEN Sgn(Sgn(x[1]) - Sgn(y[1]))
  ELSE IF x[2] # y[2] THEN Sgn(x[1]) * Sgn(x[2] - y[2])
  ELSE Sgn(x[1] - y[1])

FLt(x, y) == FCmp(x, y) = -1

FLe(x, y) == FCmp(x, y) \in {-1, 0}

FGt(x, y) == FCmp(x, y) = 1

FGe(x, y) == FCmp(x, y) \in {0, 1}

(* Math.max / Math.min: NaN if either argument is NaN. *)
FMax(x, y) == IF FCmp(x, y) = 2 THEN NaN ELSE IF FCmp(x, y) = -1 THEN y ELSE x

FMin(x, y) == IF FCmp(x, y) = 2 THEN NaN ELSE IF FCmp(x, y) = 1 THEN y ELSE x

(* The decimal literal n/d. *)
Ratio(n, d) == FDiv(FromInt(n), FromInt(d))

One == <<16384, -14>>

Two == <<16384, -13>>

Half == <<16384, -15>>

(* floor(x) as an integer, for finite x of magnitude below 2^30. *)
FFloor(x) ==
  IF x[2] >= 0 THEN x[1] * (2^x[2])
  ELSE IF x[2] < -30 THEN (IF x[1] < 0 THEN -1 ELSE 0)
  ELSE x[1] \div (2^(-x[2]))

LN2 == Ratio(22713, 32768)

TWO_OVER_LN2 == FDiv(Two, LN2)

LOG10_2 == Ratio(9864, 32768)

(* 1/1, 1/3, 1/5, 1/7, 1/9: the coefficients of atanh(z)/z in z^2. *)
AtanhCoef == <<One, Ratio(1, 3), Ratio(1, 5), Ratio(1, 7), Ratio(1, 9)>>

(* c[k] + z2 (c[k+1] + z2 (...)) over the coefficients c from the k-th on. *)
RECURSIVE AtanhSeries(_, _)
AtanhSeries(z2, k) ==
  IF k >= Len(AtanhCoef) THEN AtanhCoef[k]
  ELSE FAdd(AtanhCoef[k], FMul(z2, AtanhSeries(z2, k + 1)))

(* e + 2 atanh(z) / ln 2 *)
LogFromZ(z, e) ==
  FAdd(FromInt(e), FMul(FMul(z, AtanhSeries(FMul(z, z), 1)), TWO_OVER_LN2))

(* log2 of a finite x > 0, x = mant * 2^(e + 14) with 1 <= mant < 2, from    *)
(* ln(mant) = 2 atanh((mant - 1) / (mant + 1)).                              *)
Log2(x) ==
  LogFromZ(FDiv(FSub(<<x[1], -14>>, One), FAdd(<<x[1], -14>>, One)), x[2] + 14)

(* 1/1 .. 1/6: the quotients of successive terms of the exponential series. *)
ExpCoef == <<One, Half, Ratio(1, 3), Ratio(1, 4), Ratio(1, 5), Ratio(1, 6)>>

(* 1 + z c[k] (1 + z c[k+1] (1 + ...)) up to the term in z^6. *)
RECURSIVE ExpSeries(_, _)
ExpSeries(z, k) ==
  IF k > Len(ExpCoef) THEN One
  ELSE FAdd(One, FMul(FMul(z, ExpCoef[k]), ExpSeries(z, k + 1)))

(* p * 2^n *)
ScaleExp(p, n) == <<p[1], p[2] + n>>

(* 2^y of a finite y: the integer part goes to the exponent, the rest to    *)
(* the exponential series.                                                  *)
Exp2(y) ==
  ScaleExp(ExpSeries(FMul(FSub(y, FromInt(FFloor(y))), LN2), 1), FFloor(y))

(* Math.pow(x, y) for the non-integer exponents the engine uses. *)
FPow(x, y) ==
  IF IsNaN(x) \/ IsNaN(y) THEN NaN
  ELSE IF y[1] = 0 THEN One
  ELSE IF x[1] < 0 THEN NaN
  ELSE IF x[1] = 0 THEN (IF y[1] > 0 THEN Zero ELSE Infinity)
  ELSE IF IsInf(x) THEN (IF y[1] > 0 THEN Infinity ELSE Zero)
  ELSE Exp2(FMul(y, Log2(x)))

(* Math.log10(x). *)
FLog10(x) ==
  IF IsNaN(x) \/ x[1] < 0 THEN NaN
  ELSE IF x[1] = 0 THEN NegInfinity
  ELSE IF IsInf(x) THEN Infinity
  ELSE FMul(Log2(x), LOG10_2)

(* One Newton step for the square root of x from the estimate s. *)
SqrtNewton(x, s) == FMul(FAdd(s, FDiv(x, s)), Half)

(* Math.sqrt(x): 2^(log2(x)/2) refined by two Newton steps. *)
FSqrt(x) ==
  IF IsNaN(x) \/ x[1] < 0 THEN NaN
  ELSE IF x[1] = 0 THEN Zero
  ELSE IF IsInf(x) THEN Infinity
  ELSE SqrtNewton(x, SqrtNewton(x, Exp2(FMul(Log2(x), Half))))

(***************************************************************************)
(* Constants (src/constants.ts) and the helpers of the engine.             *)
(***************************************************************************)
P_ATM_PSIA == Ratio(147, 10)

G_C_LBM_FT_LBF_S2 == Ratio(32174, 1000)

GALLONS_PER_FT3 == Ratio(748, 100)

GAS_PROPERTIES ==
  [air        |-> [R |-> Ratio(5335, 100), nu |-> Ratio(16, 100000),
                   name |-> "Compressed Air"],
   naturalGas |-> [R |-> Ratio(965, 10), nu |-> Ratio(172, 1000000),
                   name |-> "Natural Gas (SG 0.6)"]]

GasTypes == {"air", "naturalGas"}

(* Math.PI *)
PI == Ratio(355, 113)

(* The literals of src/services/sizingService.ts. *)
RANKINE_OFFSET == Ratio(45967, 100)        \* 459.67

LAMINAR_LIMIT == FromInt(2300)

SIXTY_FOUR == FromInt(64)

SJ_ROUGHNESS_DIVISOR == Ratio(37, 10)      \* 3.7

SJ_REYNOLDS_FACTOR == Ratio(574, 100)      \* 5.74

SJ_REYNOLDS_EXPONENT == Ratio(9, 10)       \* 0.9

QUARTER == Ratio(1, 4)                     \* 0.25

BADLY_FACTOR == Ratio(3, 2)                \* 1.5

MIN_ALLOWED_DELTA_P == Ratio(1, 1000000)   \* 1e-6

IN_PER_FT == FromInt(12)

FOUR == FromInt(4)

SIXTY == FromInt(60)

IFGC_COEFFICIENT == FromInt(2207)

IFGC_DIAMETER_EXPONENT == Ratio(2582, 1000)         \* 2.582

IFGC_INVERSE_EXPONENT == FDiv(One, Ratio(522, 1000)) \* 1 / 0.522

IN2_PER_FT2 == FromInt(144)

TWO_G_C == FMul(Two, G_C_LBM_FT_LBF_S2)    \* 2 * G_C_LBM_FT_LBF_S2

(* An absent object (null) and an absent number (a row's outletPressure). *)
Null == [null |-> TRUE]

NullNum == << >>

(* x || 0 on a number: 0 and NaN are falsy. *)
OrZero(x) == IF IsNaN(x) \/ x[1] = 0 THEN Zero ELSE x

(* Array.prototype.filter(p => p.selected) *)
SelectedPipes(pipes) == SelectSeq(pipes, LAMBDA p : p.selected)

(* Array.prototype.slice(0, n) *)
Slice(s, n) == SubSeq(s, 1, IF Len(s) < n THEN Len(s) ELSE n)

(* Index of the first row with the given nominal label, 0 if none
   (Array.prototype.find). *)
FindNominal(table, nominal) ==
  IF \E i \in 1..Len(table) : table[i].nominal = nominal
  THEN CHOOSE i \in 1..Len(table) :
         /\ table[i].nominal = nominal
         /\ \A j \in 1..(i - 1) : table[j].nominal # nominal
  ELSE 0

(* Mutation of FirstOk: the OK row of the smallest diameter, not the first. *)
FirstOkSmallest(table) ==
  IF \E i \in 1..Len(table) : table[i].status = "OK"
  THEN CHOOSE i \in 1..Len(table) :
         /\ table[i].status = "OK"
         /\ \A j \in 1..Len(table) :
              table[j].status = "OK" =>
                \/ FCmp(table[i].id_in, table[j].id_in) = -1
                \/ FCmp(table[i].id_in, table[j].id_in) = 0 /\ i <= j
  ELSE 0

(* Index of the first row of status OK, 0 if none (filter(...)[0]). *)
FirstOk(table) ==
  IF \E i \in 1..Len(table) : table[i].status = "OK"
  THEN CHOOSE i \in 1..Len(table) :
         /\ table[i].status = "OK"
         /\ \A j \in 1..(i - 1) : table[j].status # "OK"
  ELSE 0

(* okSizes.length > 0 ? okSizes[0].nominal : 'No feasible size' *)
RecommendedSize(table) ==
  IF FirstOk(table) > 0 THEN table[FirstOk(table)].nominal ELSE "No feasible size"

toAbsRankine(tempF) == FAdd(tempF, RANKINE_OFFSET)

(* 0.25 / (logTerm * logTerm) *)
SwameeJainOfLog(logTerm) == FDiv(QUARTER, FMul(logTerm, logTerm))

swameeJainFrictionFactor(roughness_ft, diameter_ft, reynoldsNumber) ==
  IF FLe(reynoldsNumber, LAMINAR_LIMIT) THEN FDiv(SIXTY_FOUR, reynoldsNumber)
  ELSE SwameeJainOfLog(
         FLog10(FAdd(FDiv(roughness_ft, FMul(SJ_ROUGHNESS_DIVISOR, diameter_ft)),
                     FDiv(SJ_REYNOLDS_FACTOR, FPow(reynoldsNumber, SJ_REYNOLDS_EXPONENT)))))

(* Mutation of calculateSeverity: the test allowedDeltaP > 0 is dropped. *)
calculateSeverityNoGuard(isOk, velocity, maxVelocity, deltaP, allowedDeltaP) ==
  IF isOk THEN "ok"
  ELSE IF FGt(velocity, FMul(BADLY_FACTOR, maxVelocity))
            \/ FGt(deltaP, FMul(BADLY_FACTOR, allowedDeltaP))
       THEN "bad" ELSE "warn"

calculateSeverity(isOk, velocity, maxVelocity, deltaP, allowedDeltaP) ==
  IF isOk THEN "ok"
  ELSE LET velocityExceededBadly == FGt(velocity, FMul(BADLY_FACTOR, maxVelocity))
           pressureExceededBadly ==
             FGt(allowedDeltaP, Zero) /\ FGt(deltaP, FMul(BADLY_FACTOR, allowedDeltaP))
       IN  IF velocityExceededBadly \/ pressureExceededBadly THEN "bad" ELSE "warn"

(***************************************************************************)
(* sizePipe.  Its arguments and the values it computes before the loop     *)
(* travel in a record a: flowScfm, length_ft, upstreamPressure_psig,       *)
(* requiredOutletPressure_psig, maxVelocity_fts, airTemperature_F,         *)
(* pipeRoughness_ft, candidatePipes, gasType, GAS, t_abs_R, p_in_abs_psia, *)
(* allowedDeltaP.  Each correlation returns [v, deltaP, p_out, re, f].     *)
(***************************************************************************)

(* IFGC 402.4.1: the outlet pressure from p2_sq (sizePipe and the header). *)
IfgcOutletPressure(p2_sq) ==
  IF FLt(p2_sq, Zero) THEN FNeg(P_ATM_PSIA) ELSE FSub(FSqrt(p2_sq), P_ATM_PSIA)

(* IFGC 402.4.1: p_out_psig of a candidate of inside diameter d_in. *)
SizePipeIfgcOutlet(a, d_in) ==
  IF FGt(FMul(a.flowScfm, SIXTY), Zero)
  THEN IfgcOutletPressure(
         FSub(FMul(a.p_in_abs_psia, a.p_in_abs_psia),
              FMul(a.length_ft,
                   FPow(FDiv(FMul(a.flowScfm, SIXTY),
                             FMul(IFGC_COEFFICIENT, FPow(d_in, IFGC_DIAMETER_EXPONENT))),
                        IFGC_INVERSE_EXPONENT))))
  ELSE a.upstreamPressure_psig

(* IFGC 402.4.1: pressure drop and velocity once p_out_psig is known. *)
SizePipeIfgcFlow(a, area_ft2, p_out_psig) ==
  [v |-> FDiv(FDiv(FMul(a.flowScfm,
                        FDiv(P_ATM_PSIA,
                             FDiv(FAdd(a.p_in_abs_psia, FAdd(p_out_psig, P_ATM_PSIA)),
                                  Two))),
                   SIXTY),
              area_ft2),
   deltaP |-> FSub(a.upstreamPressure_psig, p_out_psig),
   p_out |-> p_out_psig, re |-> Zero, f |-> Zero]

(* IFGC 402.4.1, closed form (natural gas). *)
SizePipeIfgc(a, d_in, area_ft2) ==
  SizePipeIfgcFlow(a, area_ft2, SizePipeIfgcOutlet(a, d_in))

(* One pass of the Darcy-Weisbach iteration, stage by stage: the pressure  *)
(* drop and the next outlet estimate.                                       *)
SizePipeAirPassOut(a, v_fts, re, f, deltaP_psi) ==
  [v |-> v_fts, deltaP |-> deltaP_psi,
   p_out |-> FSub(a.upstreamPressure_psig, deltaP_psi), re |-> re, f |-> f]

SizePipeAirPassDrop(a, d_ft, rho_iter, v_fts, re, f) ==
  SizePipeAirPassOut(a, v_fts, re, f,
    FDiv(FDiv(FMul(FMul(f, FDiv(a.length_ft, d_ft)), FMul(FMul(rho_iter, v_fts), v_fts)),
              TWO_G_C),
         IN2_PER_FT2))

SizePipeAirPassFriction(a, d_ft, rho_iter, v_fts, re) ==
  SizePipeAirPassDrop(a, d_ft, rho_iter, v_fts, re,
                      swameeJainFrictionFactor(a.pipeRoughness_ft, d_ft, re))

SizePipeAirPassVelocity(a, d_ft, rho_iter, v_fts) ==
  SizePipeAirPassFriction(a, d_ft, rho_iter, v_fts, FDiv(FMul(v_fts, d_ft), a.GAS.nu))

SizePipeAirPassAt(a, d_ft, area_ft2, p_avg_abs_iter) ==
  SizePipeAirPassVelocity(a, d_ft,
    FDiv(FMul(p_avg_abs_iter, IN2_PER_FT2), FMul(a.GAS.R, a.t_abs_R)),
    FDiv(FDiv(FMul(a.flowScfm, FDiv(P_ATM_PSIA, p_avg_abs_iter)), SIXTY),
         area_ft2))

(* One pass from the outlet estimate p_out_psig_iter. *)
SizePipeAirPass(a, d_ft, area_ft2, p_out_psig_iter) ==
  SizePipeAirPassAt(a, d_ft, area_ft2,
    FDiv(FAdd(a.p_in_abs_psia, FAdd(p_out_psig_iter, P_ATM_PSIA)), Two))

(* Number of passes of the air iteration: for (let i = 0; i < 5; i++). *)
AIR_PASSES == 5

(* The loop: the estimates before the first pass and after each of n passes. *)
RECURSIVE SizePipeAirPasses(_, _, _, _)
SizePipeAirPasses(n, a, d_ft, area_ft2) ==
  IF n = 0
  THEN << [v |-> Zero, deltaP |-> Zero, p_out |-> a.requiredOutletPressure_psig,
           re |-> Zero, f |-> Zero] >>
  ELSE LET prev == SizePipeAirPasses(n - 1, a, d_ft, area_ft2)
       IN  Append(prev, SizePipeAirPass(a, d_ft, area_ft2, prev[Len(prev)].p_out))

(* Darcy-Weisbach, iterative (air): the estimate after the last pass. *)
SizePipeAir(a, d_ft, area_ft2) ==
  SizePipeAirPasses(AIR_PASSES, a, d_ft, area_ft2)[AIR_PASSES + 1]

(* let status = 'OK'; if (!velocityOk && !pressureOk) ... *)
SizePipeStatus(velocityOk, pressureOk) ==
  IF ~velocityOk /\ ~pressureOk THEN "High velocity & Excessive ΔP"
  ELSE IF ~velocityOk THEN "High velocity"
  ELSE IF ~pressureOk THEN "Excessive ΔP"
  ELSE "OK"

(* results.push(...) and detailsMap.set(...) of one candidate. *)
SizePipePush(pipe, a, d_ft, area_ft2, c, status) ==
  [row |-> [nominal |-> pipe.nominal, id_in |-> pipe.id_in, velocity |-> c.v,
            deltaP |-> c.deltaP, outletPressure |-> NullNum, status |-> status,
            severity |-> calculateSeverity(status = "OK", c.v, a.maxVelocity_fts,
                                           c.deltaP, a.allowedDeltaP)],
   pipeDetails |-> [formula |-> IF a.gasType = "naturalGas" THEN "IFGC 402.4.1"
                                ELSE "Darcy-Weisbach (Iterative)",
                    d_ft |-> d_ft, area_ft2 |-> area_ft2,
                    reynolds |-> c.re, friction_factor |-> c.f]]

(* Mutation of SizePipeCheck: both bounds strict. *)
SizePipeCheckStrict(pipe, a, d_ft, area_ft2, c) ==
  SizePipePush(pipe, a, d_ft, area_ft2, c,
               SizePipeStatus(FLt(c.v, a.maxVelocity_fts),
                              FLt(c.deltaP, a.allowedDeltaP)))

(* The checks of one candidate on the outcome c of its correlation. *)
SizePipeCheck(pipe, a, d_ft, area_ft2, c) ==
  SizePipePush(pipe, a, d_ft, area_ft2, c,
               SizePipeStatus(FLe(c.v, a.maxVelocity_fts),
                              FLe(c.deltaP, a.allowedDeltaP)))

(* The body of the loop from area_ft2 on. *)
SizePipeCorrelate(pipe, a, d_ft, area_ft2) ==
  SizePipeCheck(pipe, a, d_ft, area_ft2,
                IF a.gasType = "naturalGas" THEN SizePipeIfgc(a, pipe.id_in, area_ft2)
                ELSE SizePipeAir(a, d_ft, area_ft2))

(* The body of the loop from d_ft on. *)
SizePipeArea(pipe, a, d_ft) ==
  SizePipeCorrelate(pipe, a, d_ft, FDiv(FMul(FMul(PI, d_ft), d_ft), FOUR))

(* The evaluation of one selected candidate: its row and its pipeDetails. *)
SizePipeEval(pipe, a) == SizePipeArea(pipe, a, FDiv(pipe.id_in, IN_PER_FT))

(* Mutation of SizePipeLoop: no candidate is skipped. *)
RECURSIVE SizePipeLoopNoSkip(_, _)
SizePipeLoopNoSkip(n, a) ==
  IF n = 0 THEN << >>
  ELSE Append(SizePipeLoopNoSkip(n - 1, a), SizePipeEval(a.candidatePipes[n], a))

(* for (const pipe of candidatePipes): the evaluations of the selected ones
   among the first n candidates, in order. *)
RECURSIVE SizePipeLoop(_, _)
SizePipeLoop(n, a) ==
  IF n = 0 THEN << >>
  ELSE IF ~a.candidatePipes[n].selected THEN SizePipeLoop(n - 1, a)
  ELSE Append(SizePipeLoop(n - 1, a), SizePipeEval(a.candidatePipes[n], a))

(* The rows of the first n of a sequence of evaluations. *)
RECURSIVE RowsOf(_, _)
RowsOf(evals, n) ==
  IF n = 0 THEN << >> ELSE Append(RowsOf(evals, n - 1), evals[n].row)

(* detailsMap.get(nominal): the details set last under that label, 0 if none. *)
LastNominal(evals, nominal) ==
  IF \E i \in 1..Len(evals) : evals[i].row.nominal = nominal
  THEN CHOOSE i \in 1..Len(evals) :
         /\ evals[i].row.nominal = nominal
         /\ \A j \in (i + 1)..Len(evals) : evals[j].row.nominal # nominal
  ELSE 0

(* finalDetails from final_p_avg_abs on. *)
SizePipeFinalDetails(a, recommendedPipeDetails, final_p_avg_abs) ==
  [formula |-> recommendedPipeDetails.formula,
   p_avg_abs_psia |-> final_p_avg_abs,
   rho |-> FDiv(FMul(final_p_avg_abs, IN2_PER_FT2), FMul(a.GAS.R, a.t_abs_R)),
   q_acfm |-> FMul(a.flowScfm, FDiv(P_ATM_PSIA, final_p_avg_abs)),
   q_cfs |-> FDiv(FMul(a.flowScfm, FDiv(P_ATM_PSIA, final_p_avg_abs)), SIXTY),
   recommended_pipe |->
     [d_ft |-> recommendedPipeDetails.d_ft,
      area_ft2 |-> recommendedPipeDetails.area_ft2,
      reynolds |-> recommendedPipeDetails.reynolds,
      friction_factor |-> recommendedPipeDetails.friction_factor]]

(* The return value; rec and det index recommendedResult and the details   *)
(* of the recommended label, 0 standing for undefined.                     *)
SizePipeReturn(a, evals, results, recommendedSize, rec, det) ==
  [table |-> results, recommended |-> recommendedSize,
   velocity |-> IF rec > 0 THEN results[rec].velocity ELSE Zero,
   deltaP |-> IF rec > 0 THEN results[rec].deltaP ELSE Zero,
   status |-> IF rec > 0 THEN results[rec].status ELSE "No feasible size",
   details |->
     IF rec > 0 /\ det > 0
     THEN SizePipeFinalDetails(a, evals[det].pipeDetails,
            FDiv(FAdd(a.p_in_abs_psia,
                      FAdd(FSub(a.upstreamPressure_psig, results[rec].deltaP),
                           P_ATM_PSIA)),
                 Two))
     ELSE Null]

(* Mutation of SizePipeOkSizes: the fallback row is the last one, not the first. *)
SizePipeOkSizesLastRow(a, evals, results) ==
  SizePipeReturn(a, evals, results, RecommendedSize(results),
                 IF FindNominal(results, RecommendedSize(results)) > 0
                 THEN FindNominal(results, RecommendedSize(results))
                 ELSE Len(results),
                 LastNominal(evals, RecommendedSize(results)))

(* recommendedSize, recommendedResult (results.find(...) || results[0]) and *)
(* recommendedPipeDetails of the table.                                     *)
SizePipeOkSizes(a, evals, results) ==
  SizePipeReturn(a, evals, results, RecommendedSize(results),
                 IF FindNominal(results, RecommendedSize(results)) > 0
                 THEN FindNominal(results, RecommendedSize(results))
                 ELSE IF Len(results) > 0 THEN 1 ELSE 0,
                 LastNominal(evals, RecommendedSize(results)))

(* The table of the evaluations. *)
SizePipeTable(a, evals) == SizePipeOkSizes(a, evals, RowsOf(evals, Len(evals)))

(* sizePipe of an active flow. *)
SizePipeActive(a) == SizePipeTable(a, SizePipeLoop(Len(a.candidatePipes), a))

(* Mutation of sizePipe: the inactive guard tests flowScfm < 0. *)
sizePipeStrictGuard(flowScfm, length_ft, upstreamPressure_psig, requiredOutletPressure_psig, maxVelocity_fts, airTemperature_F, pipeRoughness_ft, candidatePipes, gasType) ==
  IF FLt(flowScfm, Zero)
  THEN [table |-> << >>, recommended |-> "N/A (Inactive)", velocity |-> Zero,
        deltaP |-> Zero, status |-> "Inactive", details |-> Null]
  ELSE SizePipeActive(
         [flowScfm |-> flowScfm, length_ft |-> length_ft,
          upstreamPressure_psig |-> upstreamPressure_psig,
          requiredOutletPressure_psig |-> requiredOutletPressure_psig,
          maxVelocity_fts |-> maxVelocity_fts, airTemperature_F |-> airTemperature_F,
          pipeRoughness_ft |-> pipeRoughness_ft, candidatePipes |-> candidatePipes,
          gasType |-> gasType,
          GAS |-> GAS_PROPERTIES[gasType],
          t_abs_R |-> toAbsRankine(airTemperature_F),
          p_in_abs_psia |-> FAdd(upstreamPressure_psig, P_ATM_PSIA),
          allowedDeltaP |->
            FMax(MIN_ALLOWED_DELTA_P,
                 FSub(upstreamPressure_psig, requiredOutletPressure_psig))])

sizePipe(flowScfm, length_ft, upstreamPressure_psig, requiredOutletPressure_psig, maxVelocity_fts, airTemperature_F, pipeRoughness_ft, candidatePipes, gasType) ==
  IF FLe(flowScfm, Zero)
  THEN [table |-> << >>, recommended |-> "N/A (Inactive)", velocity |-> Zero,
        deltaP |-> Zero, status |-> "Inactive", details |-> Null]
  ELSE SizePipeActive(
         [flowScfm |-> flowScfm, length_ft |-> length_ft,
          upstreamPressure_psig |-> upstreamPressure_psig,
          requiredOutletPressure_psig |-> requiredOutletPressure_psig,
          maxVelocity_fts |-> maxVelocity_fts, airTemperature_F |-> airTemperature_F,
          pipeRoughness_ft |-> pipeRoughness_ft, candidatePipes |-> candidatePipes,
          gasType |-> gasType,
          GAS |-> GAS_PROPERTIES[gasType],
          t_abs_R |-> toAbsRankine(airTemperature_F),
          p_in_abs_psia |-> FAdd(upstreamPressure_psig, P_ATM_PSIA),
          allowedDeltaP |->
            FMax(MIN_ALLOWED_DELTA_P,
                 FSub(upstreamPressure_psig, requiredOutletPressure_psig))])

(***************************************************************************)
(* calculateHeaderSizing.  Its arguments and the values it computes before *)
(* the loop travel in a record h: designScfm, system, geometry,            *)
(* selectedPipes, GAS, t_abs_R, p_in_abs_psia.  The header repeats the two *)
(* correlations with its own code; each returns [v, deltaP, p_out, re, f]. *)
(***************************************************************************)

(* IFGC 402.4.1: p_out_psig of a candidate of inside diameter d_in. *)
HeaderIfgcOutlet(h, d_in) ==
  IF FGt(FMul(h.designScfm, SIXTY), Zero)
  THEN IfgcOutletPressure(
         FSub(FMul(h.p_in_abs_psia, h.p_in_abs_psia),
              FMul(h.geometry.headerLength,
                   FPow(FDiv(FMul(h.designScfm, SIXTY),
                             FMul(IFGC_COEFFICIENT, FPow(d_in, IFGC_DIAMETER_EXPONENT))),
                        IFGC_INVERSE_EXPONENT))))
  ELSE h.system.inletPressure

(* IFGC 402.4.1: pressure drop and velocity once p_out_psig is known. *)
HeaderIfgcFlow(h, area_ft2, p_out_psig) ==
  [v |-> FDiv(FDiv(FMul(h.designScfm,
                        FDiv(P_ATM_PSIA,
                             FDiv(FAdd(h.p_in_abs_psia, FAdd(p_out_psig, P_ATM_PSIA)),
                                  Two))),
                   SIXTY),
              area_ft2),
   deltaP |-> FSub(h.system.inletPressure, p_out_psig),
   p_out |-> p_out_psig, re |-> Zero, f |-> Zero]

(* IFGC 402.4.1, closed form (natural gas). *)
HeaderIfgc(h, d_in, area_ft2) ==
  HeaderIfgcFlow(h, area_ft2, HeaderIfgcOutlet(h, d_in))

(* One pass of the Darcy-Weisbach iteration of the header, stage by stage. *)
HeaderAirPassOut(h, v_fts, re, f, deltaP_psi) ==
  [v |-> v_fts, deltaP |-> deltaP_psi,
   p_out |-> FSub(h.system.inletPressure, deltaP_psi), re |-> re, f |-> f]

HeaderAirPassDrop(h, d_ft, rho_iter, v_fts, re, f) ==
  HeaderAirPassOut(h, v_fts, re, f,
    FDiv(FDiv(FMul(FMul(f, FDiv(h.geometry.headerLength, d_ft)),
                   FMul(FMul(rho_iter, v_fts), v_fts)),
              TWO_G_C),
         IN2_PER_FT2))

HeaderAirPassFriction(h, d_ft, rho_iter, v_fts, re) ==
  HeaderAirPassDrop(h, d_ft, rho_iter, v_fts, re,
                    swameeJainFrictionFactor(h.geometry.pipeRoughness, d_ft, re))

HeaderAirPassVelocity(h, d_ft, rho_iter, v_fts) ==
  HeaderAirPassFriction(h, d_ft, rho_iter, v_fts, FDiv(FMul(v_fts, d_ft), h.GAS.nu))

HeaderAirPassAt(h, d_ft, area_ft2, p_avg_abs) ==
  HeaderAirPassVelocity(h, d_ft,
    FDiv(FMul(p_avg_abs, IN2_PER_FT2), FMul(h.GAS.R, h.t_abs_R)),
    FDiv(FDiv(FMul(h.designScfm, FDiv(P_ATM_PSIA, p_avg_abs)), SIXTY),
         area_ft2))

(* One pass from the outlet estimate p_out_psig. *)
HeaderAirPass(h, d_ft, area_ft2, p_out_psig) ==
  HeaderAirPassAt(h, d_ft, area_ft2,
    FDiv(FAdd(h.p_in_abs_psia, FAdd(p_out_psig, P_ATM_PSIA)), Two))

(* Number of passes of the header's iteration: for (let iter = 0; iter < 5; iter++). *)
HEADER_PASSES == 5

(* The loop: the estimates before the first pass and after each of n passes. *)
RECURSIVE HeaderAirPasses(_, _, _, _)
HeaderAirPasses(n, h, d_ft, area_ft2) ==
  IF n = 0
  THEN << [v |-> Zero, deltaP |-> Zero, p_out |-> h.system.inletPressure,
           re |-> Zero, f |-> Zero] >>
  ELSE LET prev == HeaderAirPasses(n - 1, h, d_ft, area_ft2)
       IN  Append(prev, HeaderAirPass(h, d_ft, area_ft2, prev[Len(prev)].p_out))

(* Darcy-Weisbach, iterative (air): the estimate after the last pass. *)
HeaderAir(h, d_ft, area_ft2) ==
  HeaderAirPasses(HEADER_PASSES, h, d_ft, area_ft2)[HEADER_PASSES + 1]

(* let status = 'OK'; if (!pressureOk) ...; if (!velocityOk) ...; if (both) ... *)
HeaderStatus(pressureOk, velocityOk) ==
  IF ~pressureOk /\ ~velocityOk THEN "High velocity & Excessive ΔP"
  ELSE IF ~velocityOk THEN "High velocity"
  ELSE IF ~pressureOk THEN "Insufficient outlet pressure"
  ELSE "OK"

(* detailsMap.set(...) and comparisonTable.push(...) of one candidate. *)
HeaderPush(pipe, h, c, status) ==
  [row |-> [nominal |-> pipe.nominal, id_in |-> pipe.id_in, velocity |-> c.v,
            deltaP |-> c.deltaP, outletPressure |-> c.p_out, status |-> status,
            severity |-> calculateSeverity(status = "OK", c.v,
                           h.geometry.maxLineVelocity, c.deltaP,
                           FSub(h.system.inletPressure, h.system.minOutletPressure))],
   pipeDetails |-> [formula |-> IF h.system.gasType = "naturalGas"
                                THEN "IFGC 402.4.1"
                                ELSE "Darcy-Weisbach (Iterative)",
                    re |-> c.re, f |-> c.f]]

(* Mutation of HeaderCheck: both bounds strict. *)
HeaderCheckStrict(pipe, h, c) ==
  HeaderPush(pipe, h, c,
             HeaderStatus(FGt(c.p_out, h.system.minOutletPressure),
                          FLt(c.v, h.geometry.maxLineVelocity)))

(* The checks of one candidate on the outcome c of its correlation. *)
HeaderCheck(pipe, h, c) ==
  HeaderPush(pipe, h, c,
             HeaderStatus(FGe(c.p_out, h.system.minOutletPressure),
                          FLe(c.v, h.geometry.maxLineVelocity)))

(* The body of the loop from area_ft2 on. *)
HeaderCorrelate(pipe, h, d_ft, area_ft2) ==
  HeaderCheck(pipe, h,
              IF h.system.gasType = "naturalGas" THEN HeaderIfgc(h, pipe.id_in, area_ft2)
              ELSE HeaderAir(h, d_ft, area_ft2))

(* The body of the loop from d_ft on. *)
HeaderArea(pipe, h, d_ft) ==
  HeaderCorrelate(pipe, h, d_ft, FDiv(FMul(FMul(PI, d_ft), d_ft), FOUR))

(* The evaluation of one selected candidate: its row and its pipeDetails. *)
HeaderEval(pipe, h) == HeaderArea(pipe, h, FDiv(pipe.id_in, IN_PER_FT))

(* for (const pipe of selectedPipes): the evaluations of the first n. *)
RECURSIVE HeaderLoop(_, _)
HeaderLoop(n, h) ==
  IF n = 0 THEN << >>
  ELSE Append(HeaderLoop(n - 1, h), HeaderEval(h.selectedPipes[n], h))

(* Index of the first pipe with the given nominal label, 0 if none. *)
FindPipe(pipes, nominal) ==
  IF \E i \in 1..Len(pipes) : pipes[i].nominal = nominal
  THEN CHOOSE i \in 1..Len(pipes) :
         /\ pipes[i].nominal = nominal
         /\ \A j \in 1..(i - 1) : pipes[j].nominal # nominal
  ELSE 0

(* details from d_ft and p_avg_abs on; det indexes the pipeDetails of the  *)
(* recommended label, 0 standing for undefined.                             *)
HeaderDetails(h, evals, det, d_ft, p_avg_abs) ==
  [formula |-> IF det > 0 THEN evals[det].pipeDetails.formula ELSE "N/A",
   p_avg_abs_psia |-> p_avg_abs,
   rho |-> FDiv(FMul(p_avg_abs, IN2_PER_FT2), FMul(h.GAS.R, h.t_abs_R)),
   q_acfm |-> FMul(h.designScfm, FDiv(P_ATM_PSIA, p_avg_abs)),
   q_cfs |-> FDiv(FMul(h.designScfm, FDiv(P_ATM_PSIA, p_avg_abs)), SIXTY),
   recommended_pipe |->
     [d_ft |-> d_ft,
      area_ft2 |-> FDiv(FMul(FMul(PI, d_ft), d_ft), FOUR),
      reynolds |-> IF det > 0 THEN OrZero(evals[det].pipeDetails.re) ELSE Zero,
      friction_factor |-> IF det > 0 THEN OrZero(evals[det].pipeDetails.f) ELSE Zero]]

(* The return value; rec indexes recommendedResult and pipeIx               *)
(* recommendedPipe, 0 standing for undefined.                               *)
HeaderReturn(h, evals, comparisonTable, recommendedSize, rec, pipeIx) ==
  [results |->
     [recommendedSize |-> recommendedSize,
      outletPressure |-> IF rec > 0 THEN comparisonTable[rec].outletPressure ELSE Zero,
      designScfm |-> h.designScfm,
      velocity |-> IF rec > 0 THEN comparisonTable[rec].velocity ELSE Zero,
      comparisonTable |-> comparisonTable],
   details |->
     IF rec > 0 /\ pipeIx > 0
     THEN HeaderDetails(h, evals, LastNominal(evals, recommendedSize),
            FDiv(h.selectedPipes[pipeIx].id_in, IN_PER_FT),
            FDiv(FAdd(h.p_in_abs_psia,
                      FAdd(comparisonTable[rec].outletPressure, P_ATM_PSIA)),
                 Two))
     ELSE Null]

(* recommendedSize, recommendedResult (comparisonTable.find(...)) and       *)
(* recommendedPipe (selectedPipes.find(...)) of the table.                  *)
HeaderOkSizes(h, evals, comparisonTable) ==
  HeaderReturn(h, evals, comparisonTable, RecommendedSize(comparisonTable),
               FindNominal(comparisonTable, RecommendedSize(comparisonTable)),
               FindPipe(h.selectedPipes, RecommendedSize(comparisonTable)))

(* The comparison table of the evaluations. *)
HeaderTable(h, evals) == HeaderOkSizes(h, evals, RowsOf(evals, Len(evals)))

(* calculateHeaderSizing past its guard. *)
HeaderActive(h) == HeaderTable(h, HeaderLoop(Len(h.selectedPipes), h))

calculateHeaderSizing(designScfm, system, geometry, pipes) ==
  IF Len(SelectedPipes(pipes)) = 0 \/ FLe(designScfm, Zero)
  THEN [results |-> Null, details |-> Null]
  ELSE HeaderActive(
         [designScfm |-> designScfm, system |-> system, geometry |-> geometry,
          selectedPipes |-> SelectedPipes(pipes),
          GAS |-> GAS_PROPERTIES[system.gasType],
          t_abs_R |-> toAbsRankine(geometry.airTemperature),
          p_in_abs_psia |-> FAdd(system.inletPressure, P_ATM_PSIA)])

(***************************************************************************)
(* calculateTankMetrics                                                    *)
(***************************************************************************)

(* v_tank_ft3 = system.tankVolume / GALLONS_PER_FT3 *)
TankVolumeFt3(system) == FDiv(system.tankVolume, GALLONS_PER_FT3)

(* equivalentStorageScf = v_tank_ft3 * (p_in_abs_psia - p_min_abs_psia) / P_ATM_PSIA *)
TankEquivalentStorageScf(system) ==
  FDiv(FMul(TankVolumeFt3(system),
            FSub(FAdd(system.inletPressure, P_ATM_PSIA),
                 FAdd(system.minOutletPressure, P_ATM_PSIA))),
       P_ATM_PSIA)

(* Mutation of TankReferenceFlowScfm: a margin of exactly 0 is a deficit. *)
TankReferenceFlowScfmNonStrict(totalDesignDemandScfm, capacityMarginOrDeficitScfm) ==
  IF FLe(capacityMarginOrDeficitScfm, Zero) THEN FAbs(capacityMarginOrDeficitScfm)
  ELSE totalDesignDemandScfm

(* referenceFlowScfm past the demand guard. *)
TankReferenceFlowScfm(totalDesignDemandScfm, capacityMarginOrDeficitScfm) ==
  IF FLt(capacityMarginOrDeficitScfm, Zero) THEN FAbs(capacityMarginOrDeficitScfm)
  ELSE totalDesignDemandScfm

(* The metrics past the demand guard. *)
TankCoverage(equivalentStorageScf, referenceFlowScfm, isCoveringDeficit) ==
  [equivalentStorageScf |-> equivalentStorageScf,
   referenceFlowScfm |-> referenceFlowScfm,
   coverageTimeMinutes |->
     IF FGt(referenceFlowScfm, Zero) THEN FDiv(equivalentStorageScf, referenceFlowScfm)
     ELSE Infinity,
   isCoveringDeficit |-> isCoveringDeficit]

(* Mutation of TankMetricsOf: the guard on the design demand is skipped. *)
TankMetricsOfUnguarded(equivalentStorageScf, totalDesignDemandScfm, capacityMarginOrDeficitScfm) ==
  TankCoverage(equivalentStorageScf,
               TankReferenceFlowScfm(totalDesignDemandScfm,
                                     capacityMarginOrDeficitScfm),
               FLt(capacityMarginOrDeficitScfm, Zero))

(* Mutation of TankMetricsOf: a margin of exactly 0 counts as a deficit *)
(* for isCoveringDeficit.                                               *)
TankMetricsOfCoveringAtZero(equivalentStorageScf, totalDesignDemandScfm, capacityMarginOrDeficitScfm) ==
  IF FLe(totalDesignDemandScfm, Zero)
  THEN [equivalentStorageScf |-> equivalentStorageScf, referenceFlowScfm |-> Zero,
        coverageTimeMinutes |-> Infinity, isCoveringDeficit |-> FALSE]
  ELSE TankCoverage(equivalentStorageScf,
                    TankReferenceFlowScfm(totalDesignDemandScfm,
                                          capacityMarginOrDeficitScfm),
                    FLe(capacityMarginOrDeficitScfm, Zero))

(* calculateTankMetrics once equivalentStorageScf is known. *)
TankMetricsOf(equivalentStorageScf, totalDesignDemandScfm, capacityMarginOrDeficitScfm) ==
  IF FLe(totalDesignDemandScfm, Zero)
  THEN [equivalentStorageScf |-> equivalentStorageScf, referenceFlowScfm |-> Zero,
        coverageTimeMinutes |-> Infinity, isCoveringDeficit |-> FALSE]
  ELSE TankCoverage(equivalentStorageScf,
                    TankReferenceFlowScfm(totalDesignDemandScfm,
                                          capacityMarginOrDeficitScfm),
                    FLt(capacityMarginOrDeficitScfm, Zero))

(* Mutation of calculateTankMetrics: only a volume of exactly 0 is no tank. *)
calculateTankMetricsZeroOnly(system, totalDesignDemandScfm, capacityMarginOrDeficitScfm) ==
  IF system.tankVolume = Zero THEN Null
  ELSE TankMetricsOf(TankEquivalentStorageScf(system), totalDesignDemandScfm,
                     capacityMarginOrDeficitScfm)

calculateTankMetrics(system, totalDesignDemandScfm, capacityMarginOrDeficitScfm) ==
  IF FLe(system.tankVolume, Zero) THEN Null
  ELSE TankMetricsOf(TankEquivalentStorageScf(system), totalDesignDemandScfm,
                     capacityMarginOrDeficitScfm)

(***************************************************************************)
(* calculateDropsSizing.  The values it computes before the map travel in  *)
(* a record d: system, geometry, selectedPipes.                            *)
(***************************************************************************)

(* subDrops.reduce((sum, sd) => sum + (sd.reqFlow || 0), 0) over the first n. *)
RECURSIVE SubDropFlowSum(_, _)
SubDropFlowSum(subDrops, n) ==
  IF n = 0 THEN Zero
  ELSE FAdd(SubDropFlowSum(subDrops, n - 1), OrZero(subDrops[n].reqFlow))

FlowDivisor(gasType) == IF gasType = "naturalGas" THEN SIXTY ELSE One

(* usedFlow = Math.max(drop.reqFlow || 0, subDropTotalFlow) *)
DropUsedFlow(drop) ==
  FMax(OrZero(drop.reqFlow), SubDropFlowSum(drop.subDrops, Len(drop.subDrops)))

(* designFlowScfm = (usedFlow * system.demandSafetyFactor) / flowDivisor *)
DropDesignFlowScfm(drop, system) ==
  FDiv(FMul(DropUsedFlow(drop), system.demandSafetyFactor),
       FlowDivisor(system.gasType))

(* Mutation of DropIsSizedOnSubDrops: the test drop.reqFlow >= 0 is dropped. *)
DropIsSizedOnSubDropsAnySign(drop) ==
  FGt(SubDropFlowSum(drop.subDrops, Len(drop.subDrops)), drop.reqFlow)

(* isSizedOnSubDrops: subDropTotalFlow > drop.reqFlow && drop.reqFlow >= 0 *)
DropIsSizedOnSubDrops(drop) ==
  /\ FGt(SubDropFlowSum(drop.subDrops, Len(drop.subDrops)), drop.reqFlow)
  /\ FGe(drop.reqFlow, Zero)

(* Mutation of SizingOptions: the ok rows alone, without the fallback. *)
SizingOptionsOkOnly(table) == Slice(SelectSeq(table, LAMBDA r : r.severity = "ok"), 3)

(* Mutation of SizingOptions: the first three rows, whatever their severity. *)
SizingOptionsFirstRows(table) == Slice(table, 3)

(* The sizing options of a sub-drop's table. *)
SizingOptions(table) ==
  LET okOptions == SelectSeq(table, LAMBDA r : r.severity = "ok")
  IN  IF Len(okOptions) > 0 THEN Slice(okOptions, 3) ELSE Slice(table, 3)

(* The result of one sub-drop, given the sizing of its line. *)
SubDropSized(sd, subDropSizing) ==
  [name |-> sd.name, reqPressure |-> sd.reqPressure, reqFlow |-> sd.reqFlow,
   length |-> sd.length, recommendedSize |-> subDropSizing.recommended,
   status |-> subDropSizing.status, velocity |-> subDropSizing.velocity,
   deltaP |-> subDropSizing.deltaP,
   sizingOptions |-> SizingOptions(subDropSizing.table)]

(* The result of one sub-drop (the inner map). *)
SubDropResultOf(sd, d) ==
  SubDropSized(sd,
    sizePipe(FDiv(FMul(OrZero(sd.reqFlow), d.system.demandSafetyFactor),
                  FlowDivisor(d.system.gasType)),
             sd.length, d.system.inletPressure, sd.reqPressure,
             d.geometry.maxLineVelocity, d.geometry.airTemperature,
             d.geometry.pipeRoughness, d.selectedPipes, d.system.gasType))

(* Mutation of SubDropResultsOf: a sub-drop is sized for its own flow and *)
(* the flows of the sub-drops before it.                                  *)
RECURSIVE SubDropResultsOfPooled(_, _, _)
SubDropResultsOfPooled(subDrops, n, d) ==
  IF n = 0 THEN << >>
  ELSE Append(SubDropResultsOfPooled(subDrops, n - 1, d),
              [SubDropResultOf([subDrops[n] EXCEPT !.reqFlow = SubDropFlowSum(subDrops, n)], d)
                 EXCEPT !.reqFlow = subDrops[n].reqFlow])

(* drop.subDrops.map(...): the results of the first n sub-drops. *)
RECURSIVE SubDropResultsOf(_, _, _)
SubDropResultsOf(subDrops, n, d) ==
  IF n = 0 THEN << >>
  ELSE Append(SubDropResultsOf(subDrops, n - 1, d), SubDropResultOf(subDrops[n], d))

(* One turn of the outer map, given the sizing of the drop's line: the     *)
(* result of the drop, and what the turn contributes to sampleDropDetails. *)
DropSized(drop, d, dropSizing) ==
  [result |->
     [id |-> drop.id, name |-> drop.name, length |-> drop.length,
      reqPressure |-> drop.reqPressure, reqFlow |-> drop.reqFlow,
      subDropTotalFlow |-> SubDropFlowSum(drop.subDrops, Len(drop.subDrops)),
      usedFlow |-> DropUsedFlow(drop),
      isSizedOnSubDrops |-> DropIsSizedOnSubDrops(drop),
      recommendedSize |-> dropSizing.recommended, velocity |-> dropSizing.velocity,
      deltaP |-> dropSizing.deltaP, comparisonTable |-> dropSizing.table,
      subDropResults |-> SubDropResultsOf(drop.subDrops, Len(drop.subDrops), d)],
   name |-> drop.name,
   designFlowScfm |-> DropDesignFlowScfm(drop, d.system),
   details |-> dropSizing.details,
   allowed_deltaP |->
     FMax(MIN_ALLOWED_DELTA_P, FSub(d.system.inletPressure, drop.reqPressure))]

(* One turn of the outer map. *)
DropEval(drop, d) ==
  DropSized(drop, d,
    sizePipe(DropDesignFlowScfm(drop, d.system), drop.length, d.system.inletPressure,
             drop.reqPressure, d.geometry.maxLineVelocity, d.geometry.airTemperature,
             d.geometry.pipeRoughness, d.selectedPipes, d.system.gasType))

(* drops.map(...): the first n turns. *)
RECURSIVE DropEvals(_, _, _)
DropEvals(drops, n, d) ==
  IF n = 0 THEN << >>
  ELSE Append(DropEvals(drops, n - 1, d), DropEval(drops[n], d))

(* The results of the first n turns. *)
RECURSIVE DropResultsOf(_, _)
DropResultsOf(evals, n) ==
  IF n = 0 THEN << >> ELSE Append(DropResultsOf(evals, n - 1), evals[n].result)

(* The turn that finds firstActiveDropProcessed false and designFlowScfm   *)
(* positive; 0 if none.                                                     *)
FirstActiveDrop(evals) ==
  IF \E i \in 1..Len(evals) : FGt(evals[i].designFlowScfm, Zero)
  THEN CHOOSE i \in 1..Len(evals) :
         /\ FGt(evals[i].designFlowScfm, Zero)
         /\ \A j \in 1..(i - 1) : ~FGt(evals[j].designFlowScfm, Zero)
  ELSE 0

(* sampleDropDetails after the map; first is the first active turn. *)
SampleDropDetails(evals, first) ==
  IF first > 0 /\ evals[first].details # Null
  THEN [name |-> evals[first].name,
        formula |-> evals[first].details.formula,
        p_avg_abs_psia |-> evals[first].details.p_avg_abs_psia,
        rho |-> evals[first].details.rho,
        q_acfm |-> evals[first].details.q_acfm,
        q_cfs |-> evals[first].details.q_cfs,
        recommended_pipe |-> evals[first].details.recommended_pipe,
        q_scfm |-> evals[first].designFlowScfm,
        allowed_deltaP |-> evals[first].allowed_deltaP]
  ELSE Null

(* The return value of calculateDropsSizing after the map. *)
DropsMapped(evals) ==
  [dropResults |-> DropResultsOf(evals, Len(evals)),
   sampleDropDetails |-> SampleDropDetails(evals, FirstActiveDrop(evals))]

calculateDropsSizing(drops, system, geometry, pipes) ==
  IF Len(SelectedPipes(pipes)) = 0
  THEN [dropResults |-> << >>, sampleDropDetails |-> Null]
  ELSE DropsMapped(DropEvals(drops, Len(drops),
                             [system |-> system, geometry |-> geometry,
                              selectedPipes |-> SelectedPipes(pipes)]))

(***************************************************************************)
(* performAllCalculations                                                  *)
(***************************************************************************)

(* dropResults.reduce((sum, dr) => sum + (dr.usedFlow / flowDivisor), 0) *)
RECURSIVE UsedFlowSum(_, _, _)
UsedFlowSum(dropResults, flowDivisor, n) ==
  IF n = 0 THEN Zero
  ELSE FAdd(UsedFlowSum(dropResults, flowDivisor, n - 1),
            FDiv(dropResults[n].usedFlow, flowDivisor))

(* Mutation of CapacityStatus: a margin of exactly 0 is a shortfall. *)
CapacityStatusStrictMargin(totalDesignDemandScfm, availableFlowScfm) ==
  IF FGt(totalDesignDemandScfm, Zero)
  THEN (IF FGt(FSub(availableFlowScfm, totalDesignDemandScfm), Zero) THEN "OK"
        ELSE "SHORTFALL")
  ELSE "No demand"

(* Step 4: the capacity check. *)
CapacityStatus(totalDesignDemandScfm, availableFlowScfm) ==
  IF FGt(totalDesignDemandScfm, Zero)
  THEN (IF FGe(FSub(availableFlowScfm, totalDesignDemandScfm), Zero) THEN "OK"
        ELSE "SHORTFALL")
  ELSE "No demand"

CapacityMarginOrDeficitScfm(totalDesignDemandScfm, availableFlowScfm) ==
  IF FGt(totalDesignDemandScfm, Zero)
  THEN FSub(availableFlowScfm, totalDesignDemandScfm)
  ELSE availableFlowScfm

(* Mutation of HeaderDesignScfm: the design demand, not capped by the supply. *)
HeaderDesignScfmUncapped(availableFlowScfm, totalDesignDemandScfm) ==
  totalDesignDemandScfm

(* Step 5: the header design flow. *)
HeaderDesignScfm(availableFlowScfm, totalDesignDemandScfm) ==
  FMin(availableFlowScfm, totalDesignDemandScfm)

(* Steps 4 to 6 and the return value. *)
PerformFromDemand(systemInputs, headerGeometry, candidatePipes, sized, totalDemandScfm, totalDesignDemandScfm, availableFlowScfm, header) ==
  [totalDemandScfm |-> totalDemandScfm,
   totalDesignDemandScfm |-> totalDesignDemandScfm,
   capacityStatus |-> CapacityStatus(totalDesignDemandScfm, availableFlowScfm),
   capacityMarginOrDeficitScfm |->
     CapacityMarginOrDeficitScfm(totalDesignDemandScfm, availableFlowScfm),
   headerDesignScfm |-> HeaderDesignScfm(availableFlowScfm, totalDesignDemandScfm),
   header |-> header.results,
   drops |-> sized.dropResults,
   tankMetrics |->
     calculateTankMetrics(systemInputs, totalDesignDemandScfm,
       CapacityMarginOrDeficitScfm(totalDesignDemandScfm, availableFlowScfm)),
   details |-> [gas |-> [name |-> GAS_PROPERTIES[systemInputs.gasType].name,
                         R |-> GAS_PROPERTIES[systemInputs.gasType].R,
                         nu |-> GAS_PROPERTIES[systemInputs.gasType].nu],
                header |-> header.details,
                sampleDrop |-> sized.sampleDropDetails]]

(* Step 6: the header sizing at the header design flow. *)
PerformHeader(systemInputs, headerGeometry, candidatePipes, sized, totalDemandScfm, totalDesignDemandScfm, availableFlowScfm) ==
  PerformFromDemand(systemInputs, headerGeometry, candidatePipes, sized,
    totalDemandScfm, totalDesignDemandScfm, availableFlowScfm,
    calculateHeaderSizing(HeaderDesignScfm(availableFlowScfm, totalDesignDemandScfm),
                          systemInputs, headerGeometry, candidatePipes))

(* Steps 2 and 3: the design demand and the available flow. *)
PerformDemand(systemInputs, headerGeometry, candidatePipes, sized, totalDemandScfm) ==
  PerformHeader(systemInputs, headerGeometry, candidatePipes, sized,
    totalDemandScfm,
    FMul(totalDemandScfm, systemInputs.demandSafetyFactor),
    FDiv(systemInputs.availableCompressorFlow, FlowDivisor(systemInputs.gasType)))

(* Step 2: demand aggregation from the drop results. *)
PerformAggregate(systemInputs, headerGeometry, candidatePipes, sized) ==
  PerformDemand(systemInputs, headerGeometry, candidatePipes, sized,
    UsedFlowSum(sized.dropResults, FlowDivisor(systemInputs.gasType),
                Len(sized.dropResults)))

performAllCalculations(systemInputs, headerGeometry, candidatePipes, drops) ==
  PerformAggregate(systemInputs, headerGeometry, candidatePipes,
    calculateDropsSizing(drops, systemInputs, headerGeometry, candidatePipes))

(***************************************************************************)
(* The state machine.  The engine is a set of pure functions: a state is   *)
(* one application of one of them, first called and then returned.         *)
(***************************************************************************)
VARIABLES
  call,  \* the function applied and its arguments
  pc,    \* "called" or "returned"
  ret,   \* the value returned (Null before the return, or a returned null)
  history \* the applications made before this one, each with its result

vars == <<call, pc, ret, history>>

(* Bounds of the inputs. *)
MaxCandidates == 2

MaxNodes == 3

(* Bound of the applications made one after the other. *)
MaxInvocations == 2

(* All sequences over S of length at most n. *)
SeqsUpTo(S, n) == UNION {[1..k -> S] : k \in 0..n}

(* Two of the DEFAULT_PIPE_SIZES in any order, with repeats; the larger one *)
(* may be deselected.                                                       *)
PipePool ==
  {[nominal |-> "1/2\"", id_in |-> Ratio(622, 1000), selected |-> TRUE]}
  \cup
  {[nominal |-> "2\"", id_in |-> Ratio(2067, 1000), selected |-> b] : b \in BOOLEAN}

CandidateLists == SeqsUpTo(PipePool, MaxCandidates)

(* Flows a user may enter for a drop and for a sub-drop (negative included). *)
DropFlows == {FromInt(-20), FromInt(0), FromInt(50)}

SubDropFlows == {FromInt(-10), FromInt(40)}

(* Demand trees as flows: sequences of [reqFlow, subs] with at most n nodes. *)
RECURSIVE TreeShapes(_)
TreeShapes(n) ==
  IF n = 0 THEN {<< >>}
  ELSE {<< >>} \cup
       UNION {{<<d>> \o rest : rest \in TreeShapes(n - 1 - Len(d.subs))} :
                d \in [reqFlow : DropFlows, subs : SeqsUpTo(SubDropFlows, n - 1)]}

(* The drops the editor builds for a shape (handleAddDrop, handleAddSubDrop). *)
DropsOf(shape) ==
  [i \in 1..Len(shape) |->
     [id |-> "drop-" \o ToString(i), name |-> "Drop " \o ToString(i),
      length |-> FromInt(100), reqPressure |-> FromInt(95),
      reqFlow |-> shape[i].reqFlow,
      subDrops |->
        [k \in 1..Len(shape[i].subs) |->
           [id |-> "subdrop-" \o ToString(i) \o "-" \o ToString(k),
            name |-> "Sub-drop " \o ToString(k),
            length |-> FromInt(40), reqPressure |-> FromInt(90),
            reqFlow |-> shape[i].subs[k]]]]]

DemandTrees == {DropsOf(shape) : shape \in TreeShapes(MaxNodes)}

(* Values the editor can hold: the defaults of App.tsx for the pressures *)
(* and the geometry; an entered supply, safety factor and tank volume that *)
(* make every capacity branch happen.                                     *)
SystemInputsSet ==
  [inletPressure : {FromInt(130)},
   availableCompressorFlow : {FromInt(75)},
   minOutletPressure : {FromInt(90)},
   maxTypicalOutletPressure : {FromInt(110)},
   demandSafetyFactor : {Ratio(3, 2)},
   tankVolume : {Zero, FromInt(100)},
   gasType : GasTypes]

HeaderGeometrySet ==
  [headerLength : {FromInt(1000)}, maxLineVelocity : {FromInt(50)},
   pipeRoughness : {Ratio(15, 100000)}, airTemperature : {FromInt(70)}]

(* Calls of the orchestrator, as the editor's useMemo makes them. *)
EngineCalls ==
  [fn : {"performAllCalculations"}, systemInputs : SystemInputsSet,
   headerGeometry : HeaderGeometrySet, candidatePipes : CandidateLists,
   drops : DemandTrees]

(* Engine calls on entries no plant has: an inlet pressure and a temperature *)
(* at absolute zero, and a candidate of bore 0, for one drop declaring 50.  *)
DegenerateCalls ==
  [fn : {"performAllCalculations"},
   systemInputs : [inletPressure : {FromInt(130), FNeg(P_ATM_PSIA)},
                   availableCompressorFlow : {FromInt(75)},
                   minOutletPressure : {FromInt(90)},
                   maxTypicalOutletPressure : {FromInt(110)},
                   demandSafetyFactor : {Ratio(3, 2)},
                   tankVolume : {Zero},
                   gasType : GasTypes],
   headerGeometry : [headerLength : {FromInt(1000)}, maxLineVelocity : {FromInt(50)},
                     pipeRoughness : {Ratio(15, 100000)},
                     airTemperature : {FromInt(70), FNeg(RANKINE_OFFSET)}],
   candidatePipes :
     {<<[nominal |-> "0\"", id_in |-> Zero, selected |-> TRUE]>>,
      <<[nominal |-> "1/2\"", id_in |-> Ratio(622, 1000), selected |-> TRUE]>>},
   drops : {DropsOf(<<[reqFlow |-> FromInt(50), subs |-> << >>]>>)}]

(* Engine calls on five of the DEFAULT_PIPE_SIZES, all included, smallest  *)
(* or largest first, for a drop with one sub-drop of a small, a large or   *)
(* a huge flow.                                                            *)
WidePipes ==
  <<[nominal |-> "1/2\"", id_in |-> Ratio(622, 1000), selected |-> TRUE],
    [nominal |-> "1\"", id_in |-> Ratio(1049, 1000), selected |-> TRUE],
    [nominal |-> "2\"", id_in |-> Ratio(2067, 1000), selected |-> TRUE],
    [nominal |-> "3\"", id_in |-> Ratio(3068, 1000), selected |-> TRUE],
    [nominal |-> "4\"", id_in |-> Ratio(4026, 1000), selected |-> TRUE]>>

WideCalls ==
  [fn : {"performAllCalculations"},
   systemInputs : {s \in SystemInputsSet : s.tankVolume = Zero},
   headerGeometry : HeaderGeometrySet,
   candidatePipes : {WidePipes, [i \in 1..5 |-> WidePipes[6 - i]]},
   drops : {DropsOf(<<[reqFlow |-> FromInt(50), subs |-> <<f>>]>>) :
              f \in {FromInt(40), FromInt(4000), FromInt(40000)}}]

(* Applications of sizePipe (module-private) to arguments of its types;  *)
(* the pressures reach down to absolute zero (-P_ATM_PSIA gauge).        *)
SizePipeCalls ==
  [fn : {"sizePipe"},
   flowScfm : {FromInt(-1), Zero, FromInt(30), FromInt(3000)},
   length_ft : {FromInt(100)},
   upstreamPressure_psig : {FromInt(130)},
   requiredOutletPressure_psig : {FromInt(95), FromInt(130), FNeg(P_ATM_PSIA)},
   maxVelocity_fts : {FromInt(50), FromInt(100000)},
   airTemperature_F : {FromInt(70)},
   pipeRoughness_ft : {Ratio(15, 100000)},
   candidatePipes : CandidateLists,
   gasType : GasTypes]

(* Applications of calculateHeaderSizing to arguments of its types. *)
HeaderCalls ==
  [fn : {"calculateHeaderSizing"},
   designScfm : {FromInt(-5), Zero, FromInt(50), FromInt(75), FromInt(3000)},
   system : [inletPressure : {FromInt(130)},
             availableCompressorFlow : {FromInt(75)},
             minOutletPressure : {FromInt(90), FromInt(140), FNeg(P_ATM_PSIA)},
             maxTypicalOutletPressure : {FromInt(110)},
             demandSafetyFactor : {Ratio(3, 2)},
             tankVolume : {Zero},
             gasType : GasTypes],
   geometry : [headerLength : {FromInt(1000)},
               maxLineVelocity : {FromInt(50), FromInt(100000)},
               pipeRoughness : {Ratio(15, 100000)}, airTemperature : {FromInt(70)}],
   pipes : CandidateLists]

(* Applications of calculateTankMetrics to arguments of its types. *)
TankCalls ==
  [fn : {"calculateTankMetrics"},
   system : [inletPressure : {FromInt(130)},
             availableCompressorFlow : {FromInt(75)},
             minOutletPressure : {FromInt(90), FromInt(130), FromInt(140)},
             maxTypicalOutletPressure : {FromInt(110)},
             demandSafetyFactor : {Ratio(3, 2)},
             tankVolume : {FromInt(-10), Zero, FromInt(100)},
             gasType : GasTypes],
   totalDesignDemandScfm : {FromInt(-15), Zero, FromInt(75)},
   capacityMarginOrDeficitScfm : {FromInt(-25), Zero, FromInt(525)}]

(* Applications of sizePipe and of calculateHeaderSizing to a list whose  *)
(* two candidates carry the same label and not the same bore.             *)
RelabelledCalls ==
  [fn : {"sizePipe"},
   flowScfm : {FromInt(30), FromInt(75)},
   length_ft : {FromInt(100)},
   upstreamPressure_psig : {FromInt(130)},
   requiredOutletPressure_psig : {FromInt(95)},
   maxVelocity_fts : {FromInt(50)},
   airTemperature_F : {FromInt(70)},
   pipeRoughness_ft : {Ratio(15, 100000)},
   candidatePipes :
     {<<[nominal |-> "2\"", id_in |-> Ratio(622, 1000), selected |-> TRUE],
        [nominal |-> "2\"", id_in |-> Ratio(2067, 1000), selected |-> TRUE]>>},
   gasType : GasTypes]
  \cup
  [fn : {"calculateHeaderSizing"},
   designScfm : {FromInt(30), FromInt(75)},
   system : {s \in SystemInputsSet : s.tankVolume = Zero},
   geometry : HeaderGeometrySet,
   pipes :
     {<<[nominal |-> "2\"", id_in |-> Ratio(622, 1000), selected |-> TRUE],
        [nominal |-> "2\"", id_in |-> Ratio(2067, 1000), selected |-> TRUE]>>}]

Init ==
  /\ call \in EngineCalls \cup DegenerateCalls \cup WideCalls \cup SizePipeCalls \cup HeaderCalls \cup TankCalls \cup RelabelledCalls
  /\ pc = "called"
  /\ ret = Null
  /\ history = << >>

(* Mutation: the filter done in place, the unselected candidates removed   *)
(* from the caller's list.                                                 *)
PipesAfterFilterInPlace(pipes) == SelectedPipes(pipes)

(* Array.prototype.filter builds a new array: its receiver, the candidate  *)
(* list the caller passed, keeps every element.                            *)
PipesAfterFilter(pipes) == pipes

PerformAllCalculations ==
  /\ pc = "called"
  /\ call.fn = "performAllCalculations"
  /\ ret' = performAllCalculations(call.systemInputs, call.headerGeometry,
                                   call.candidatePipes, call.drops)
  /\ pc' = "returned"
  /\ call' = [call EXCEPT !.candidatePipes = PipesAfterFilter(@)]
  /\ UNCHANGED history

SizePipe ==
  /\ pc = "called"
  /\ call.fn = "sizePipe"
  /\ ret' = sizePipe(call.flowScfm, call.length_ft, call.upstreamPressure_psig,
                     call.requiredOutletPressure_psig, call.maxVelocity_fts,
                     call.airTemperature_F, call.pipeRoughness_ft,
                     call.candidatePipes, call.gasType)
  /\ pc' = "returned"
  /\ UNCHANGED <<call, history>>

CalculateHeaderSizing ==
  /\ pc = "called"
  /\ call.fn = "calculateHeaderSizing"
  /\ ret' = calculateHeaderSizing(call.designScfm, call.system, call.geometry,
                                  call.pipes)
  /\ pc' = "returned"
  /\ UNCHANGED <<call, history>>

CalculateTankMetrics ==
  /\ pc = "called"
  /\ call.fn = "calculateTankMetrics"
  /\ ret' = calculateTankMetrics(call.system, call.totalDesignDemandScfm,
                                 call.capacityMarginOrDeficitScfm)
  /\ pc' = "returned"
  /\ UNCHANGED <<call, history>>

Next ==
  \/ PerformAllCalculations
  \/ SizePipe
  \/ CalculateHeaderSizing
  \/ CalculateTankMetrics

Spec == Init /\ [][Next]_vars

(***************************************************************************)
(* A session: the editor recomputes on every change of its inputs          *)
(* (useMemo), and calculateDropsSizing sizes one segment after the other,  *)
(* so the functions are applied again and again in one process.            *)
(***************************************************************************)
SessionPipes ==
  {<<[nominal |-> "1/2\"", id_in |-> Ratio(622, 1000), selected |-> TRUE]>>,
   <<[nominal |-> "2\"", id_in |-> Ratio(2067, 1000), selected |-> TRUE]>>,
   <<[nominal |-> "1/2\"", id_in |-> Ratio(622, 1000), selected |-> TRUE],
     [nominal |-> "2\"", id_in |-> Ratio(2067, 1000), selected |-> FALSE]>>}

SessionCalls ==
  [fn : {"performAllCalculations"},
   systemInputs : {s \in SystemInputsSet : s.tankVolume = Zero},
   headerGeometry : HeaderGeometrySet, candidatePipes : SessionPipes,
   drops : {DropsOf(<<[reqFlow |-> FromInt(50), subs |-> << >>]>>),
            DropsOf(<<[reqFlow |-> FromInt(50), subs |-> <<FromInt(40)>>]>>)}]
  \cup
  [fn : {"sizePipe"},
   flowScfm : {FromInt(160), FromInt(210)},
   length_ft : {FromInt(100)},
   upstreamPressure_psig : {FromInt(130)},
   requiredOutletPressure_psig : {FromInt(95)},
   maxVelocity_fts : {FromInt(50)},
   airTemperature_F : {FromInt(70)},
   pipeRoughness_ft : {Ratio(15, 100000)},
   candidatePipes : SessionPipes,
   gasType : GasTypes]

InitSession ==
  /\ call \in SessionCalls
  /\ pc = "called"
  /\ ret = Null
  /\ history = << >>

(* The next application, the one just returned going to the history. *)
Invoke ==
  /\ pc = "returned"
  /\ Len(history) < MaxInvocations - 1
  /\ history' = Append(history, [call |-> call, ret |-> ret])
  /\ call' \in SessionCalls
  /\ pc' = "called"
  /\ ret' = Null

NextSession ==
  \/ PerformAllCalculations
  \/ SizePipe
  \/ Invoke

SpecSession == InitSession /\ [][NextSession]_vars

(***************************************************************************)
(* Vocabulary of the properties.  The signs and the integer values are     *)
(* read off the representation, so that a property does not rest on the    *)
(* comparison it is about.                                                 *)
(***************************************************************************)
Returned(fn) == pc = "returned" /\ call.fn = fn

IsPositive(x) == x[1] > 0

IsNegative(x) == x[1] < 0

NonPositive(x) == x[1] < 0 \/ x = Zero

(* The integer a float holds (the flows entered are whole numbers). *)
IntOf(x) == IF x[2] >= 0 THEN x[1] * 2^(x[2]) ELSE Quot(x[1], 2^(-x[2]))

RECURSIVE IntFlowSum(_, _)
IntFlowSum(subDrops, n) ==
  IF n = 0 THEN 0 ELSE IntFlowSum(subDrops, n - 1) + IntOf(subDrops[n].reqFlow)

IntMax(a, b) == IF a >= b THEN a ELSE b

NoneSelected(pipes) == \A i \in 1..Len(pipes) : ~pipes[i].selected

(* 60 for naturalGas, 1 for air. *)
InternalUnit(gasType) == IF gasType = "naturalGas" THEN FromInt(60) ELSE FromInt(1)

AvailableFlow == FDiv(call.systemInputs.availableCompressorFlow,
                      InternalUnit(call.systemInputs.gasType))

(* The recommendation of a table is the label of its first OK row. *)
RecommendsFirstOk(table, recommended) ==
  \A i \in 1..Len(table) :
    (table[i].status = "OK" /\ \A j \in 1..(i - 1) : table[j].status # "OK")
      => recommended = table[i].nominal

(* Two rows, both OK, the wider pipe first, and the first one recommended. *)
UnsortedBothOk(table, recommended) ==
  /\ Len(table) = 2
  /\ table[1].status = "OK"
  /\ table[2].status = "OK"
  /\ FCmp(table[1].id_in, table[2].id_in) = 1
  /\ recommended = table[1].nominal
  /\ recommended # table[2].nominal

C2_InactiveSegment ==
  /\ (Returned("sizePipe") /\ NonPositive(call.flowScfm)) =>
       ret = [table |-> << >>, recommended |-> "N/A (Inactive)", velocity |-> Zero,
              deltaP |-> Zero, status |-> "Inactive", details |-> Null]
  /\ Returned("performAllCalculations") =>
       \A i \in 1..Len(ret.drops) :
         /\ NonPositive(FDiv(FMul(ret.drops[i].usedFlow,
                                  call.systemInputs.demandSafetyFactor),
                             InternalUnit(call.systemInputs.gasType))) =>
              /\ ret.drops[i].comparisonTable = << >>
              /\ ret.drops[i].recommendedSize = "N/A (Inactive)"
              /\ ret.drops[i].velocity = Zero
              /\ ret.drops[i].deltaP = Zero
         /\ \A k \in 1..Len(ret.drops[i].subDropResults) :
              NonPositive(FDiv(FMul(ret.drops[i].subDropResults[k].reqFlow,
                                    call.systemInputs.demandSafetyFactor),
                               InternalUnit(call.systemInputs.gasType))) =>
                /\ ret.drops[i].subDropResults[k].status = "Inactive"
                /\ ret.drops[i].subDropResults[k].recommendedSize = "N/A (Inactive)"
                /\ ret.drops[i].subDropResults[k].velocity = Zero
                /\ ret.drops[i].subDropResults[k].deltaP = Zero
                /\ ret.drops[i].subDropResults[k].sizingOptions = << >>

(* sizePipe called with a flow of exactly 0 on a list of two candidates. *)
C2_Witness ==
  /\ Returned("sizePipe")
  /\ call.flowScfm = Zero
  /\ Len(call.candidatePipes) = 2
  /\ ret.status = "Inactive"
  /\ ret.table = << >>

(***************************************************************************)
(* C3: for every drop result, usedFlow is the larger of the drop's         *)
(* declared flow and the sum of its sub-drops' declared flows;             *)
(* isSizedOnSubDrops holds exactly when that sum is strictly greater than  *)
(* the declared flow and the declared flow is >= 0; and when the flag      *)
(* holds usedFlow is the sum.                                              *)
(***************************************************************************)
C3_UsedFlowAndFlag ==
  Returned("performAllCalculations") =>
    /\ ~NoneSelected(call.candidatePipes) => Len(ret.drops) = Len(call.drops)
    /\ \A i \in 1..Len(ret.drops) :
         /\ ret.drops[i].usedFlow =
              FromInt(IntMax(IntOf(call.drops[i].reqFlow),
                             IntFlowSum(call.drops[i].subDrops,
                                        Len(call.drops[i].subDrops))))
         /\ ret.drops[i].isSizedOnSubDrops <=>
              /\ IntFlowSum(call.drops[i].subDrops, Len(call.drops[i].subDrops))
                   > IntOf(call.drops[i].reqFlow)
              /\ IntOf(call.drops[i].reqFlow) >= 0
         /\ ret.drops[i].isSizedOnSubDrops =>
              ret.drops[i].usedFlow =
                FromInt(IntFlowSum(call.drops[i].subDrops,
                                   Len(call.drops[i].subDrops)))

(* A drop declaring 50 with sub-drops 40 and 40: usedFlow 80, flag set. *)
C3_Witness ==
  /\ Returned("performAllCalculations")
  /\ \E i \in 1..Len(ret.drops) :
       /\ call.drops[i].reqFlow = FromInt(50)
       /\ Len(call.drops[i].subDrops) = 2
       /\ ret.drops[i].subDropTotalFlow = FromInt(80)
       /\ ret.drops[i].usedFlow = FromInt(80)
       /\ ret.drops[i].isSizedOnSubDrops

(***************************************************************************)
(* C4: for every input, performAllCalculations reports totalDemand equal   *)
(* to the sum, over all drops of the input demand tree, of the drop's      *)
(* usedFlow divided by the internal unit, and totalDesignDemand equal to   *)
(* totalDemand times the safety factor.                                    *)
(***************************************************************************)
RECURSIVE InputTreeDemand(_, _, _)
InputTreeDemand(drops, unit, n) ==
  IF n = 0 THEN Zero
  ELSE FAdd(InputTreeDemand(drops, unit, n - 1),
            FDiv(FromInt(IntMax(IntOf(drops[n].reqFlow),
                                IntFlowSum(drops[n].subDrops,
                                           Len(drops[n].subDrops)))),
                 unit))

C4_TotalDemandOverInputTree ==
  Returned("performAllCalculations") =>
    /\ ret.totalDemandScfm =
         InputTreeDemand(call.drops, InternalUnit(call.systemInputs.gasType),
                         Len(call.drops))
    /\ ret.totalDesignDemandScfm =
         FMul(ret.totalDemandScfm, call.systemInputs.demandSafetyFactor)

(***************************************************************************)
(* C5: capacityStatus is "No demand" exactly when totalDesignDemand <= 0;  *)
(* otherwise it is "OK" exactly when the available flow minus the design   *)
(* demand is >= 0, and "SHORTFALL" otherwise.                              *)
(***************************************************************************)
C5_CapacityStatus ==
  Returned("performAllCalculations") =>
    /\ ret.capacityStatus \in {"No demand", "OK", "SHORTFALL"}
    /\ ret.capacityStatus = "No demand" <=> NonPositive(ret.totalDesignDemandScfm)
    /\ IsPositive(ret.totalDesignDemandScfm) =>
         (ret.capacityStatus = "OK" <=>
            ~IsNegative(FSub(AvailableFlow, ret.totalDesignDemandScfm)))

(* A design demand equal to the available flow: margin 0, status OK. *)
C5_Witness ==
  /\ Returned("performAllCalculations")
  /\ IsPositive(ret.totalDesignDemandScfm)
  /\ ret.totalDesignDemandScfm = AvailableFlow
  /\ ret.capacityStatus = "OK"

(***************************************************************************)
(* C6: in every result of performAllCalculations the margin or deficit is  *)
(* the available flow minus the design demand, for every capacity status   *)
(* and also when the design demand is negative.                            *)
(***************************************************************************)
C6_MarginIsAvailableMinusDesign ==
  Returned("performAllCalculations") =>
    ret.capacityMarginOrDeficitScfm = FSub(AvailableFlow, ret.totalDesignDemandScfm)

(***************************************************************************)
(* C7: the header design flow is the smaller of the available flow and the *)
(* design demand, so it never exceeds the available flow; the header       *)
(* result is null exactly when no candidate is selected or that flow is    *)
(* <= 0, and otherwise carries that flow as designScfm.                    *)
(***************************************************************************)
C7_HeaderDesignFlow ==
  /\ Returned("performAllCalculations") =>
       /\ ret.headerDesignScfm =
            (IF FCmp(AvailableFlow, ret.totalDesignDemandScfm) = 1
             THEN ret.totalDesignDemandScfm ELSE AvailableFlow)
       /\ FCmp(ret.headerDesignScfm, AvailableFlow) \in {-1, 0}
       /\ ret.header = Null <=>
            (NoneSelected(call.candidatePipes) \/ NonPositive(ret.headerDesignScfm))
       /\ ret.header # Null => ret.header.designScfm = ret.headerDesignScfm
  /\ Returned("calculateHeaderSizing") =>
       /\ ret.results = Null <=>
            (NoneSelected(call.pipes) \/ NonPositive(call.designScfm))
       /\ ret.results # Null => ret.results.designScfm = call.designScfm

(* A shortfall: the header is sized at the available flow, below the demand. *)
C7_Witness ==
  /\ Returned("performAllCalculations")
  /\ FCmp(ret.totalDesignDemandScfm, AvailableFlow) = 1
  /\ ret.header # Null
  /\ ret.header.designScfm = AvailableFlow

(***************************************************************************)
(* C8: calculateTankMetrics returns null exactly when the tank volume is   *)
(* <= 0, whatever the demand and the margin.                               *)
(***************************************************************************)
C8_TankMetricsNull ==
  /\ Returned("calculateTankMetrics") =>
       (ret = Null <=> NonPositive(call.system.tankVolume))
  /\ Returned("performAllCalculations") =>
       (ret.tankMetrics = Null <=> NonPositive(call.systemInputs.tankVolume))

(* A negative tank volume with a positive demand and a deficit: no metrics. *)
C8_Witness ==
  /\ Returned("calculateTankMetrics")
  /\ IsNegative(call.system.tankVolume)
  /\ IsPositive(call.totalDesignDemandScfm)
  /\ IsNegative(call.capacityMarginOrDeficitScfm)
  /\ ret = Null

(* The tank metrics at hand and the design demand and margin they were     *)
(* computed from, for either way of reaching calculateTankMetrics.         *)
TankCase ==
  IF Returned("calculateTankMetrics")
  THEN [metrics |-> ret, system |-> call.system,
        design |-> call.totalDesignDemandScfm,
        margin |-> call.capacityMarginOrDeficitScfm]
  ELSE [metrics |-> ret.tankMetrics, system |-> call.systemInputs,
        design |-> ret.totalDesignDemandScfm,
        margin |-> ret.capacityMarginOrDeficitScfm]

TankPresent ==
  /\ Returned("calculateTankMetrics") \/ Returned("performAllCalculations")
  /\ TankCase.metrics # Null

(***************************************************************************)
(* C9: when tank metrics are present, the coverage time is infinite        *)
(* exactly when the design demand is <= 0, and then isCoveringDeficit is   *)
(* false and the reference flow is 0; when the design demand is > 0 the    *)
(* reference flow is > 0 and the coverage time is the finite quotient of   *)
(* the equivalent storage by the reference flow.                           *)
(***************************************************************************)
C9_InfiniteCoverage ==
  TankPresent =>
    /\ TankCase.metrics.coverageTimeMinutes = Infinity <=> NonPositive(TankCase.design)
    /\ NonPositive(TankCase.design) =>
         /\ ~TankCase.metrics.isCoveringDeficit
         /\ TankCase.metrics.referenceFlowScfm = Zero
    /\ IsPositive(TankCase.design) =>
         /\ IsPositive(TankCase.metrics.referenceFlowScfm)
         /\ TankCase.metrics.coverageTimeMinutes[2] # SpecialExp
         /\ TankCase.metrics.coverageTimeMinutes =
              FDiv(TankCase.metrics.equivalentStorageScf,
                   TankCase.metrics.referenceFlowScfm)

(* A tank, a negative design demand and a negative margin: coverage is     *)
(* infinite, no deficit is covered.                                        *)
C9_Witness ==
  /\ Returned("calculateTankMetrics")
  /\ ret # Null
  /\ IsNegative(call.totalDesignDemandScfm)
  /\ IsNegative(call.capacityMarginOrDeficitScfm)
  /\ ret.coverageTimeMinutes = Infinity
  /\ ~ret.isCoveringDeficit

(* The reference flow and the coverage of C10 for a given storage. *)
TankReferenceAndCoverage(storage) ==
  /\ TankCase.metrics.referenceFlowScfm =
       (IF IsNegative(TankCase.margin)
        THEN <<-TankCase.margin[1], TankCase.margin[2]>>
        ELSE TankCase.design)
  /\ TankCase.metrics.equivalentStorageScf = storage
  /\ TankCase.metrics.coverageTimeMinutes =
       FDiv(storage, TankCase.metrics.referenceFlowScfm)

PressureSpan ==
  FSub(FAdd(TankCase.system.inletPressure, P_ATM_PSIA),
       FAdd(TankCase.system.minOutletPressure, P_ATM_PSIA))

(***************************************************************************)
(* C10 as stated: with a tank volume > 0 and a design demand > 0, the      *)
(* reference flow is |margin| when the margin is negative and the design   *)
(* demand otherwise, and the coverage is equivalentStorage / referenceFlow *)
(* with equivalentStorage = tankVolume x (P_in_abs - P_min_abs) / P_atm.   *)
(***************************************************************************)
C10_StorageOfEnteredVolume ==
  (TankPresent /\ IsPositive(TankCase.design)) =>
    TankReferenceAndCoverage(
      FDiv(FMul(TankCase.system.tankVolume, PressureSpan), P_ATM_PSIA))

(***************************************************************************)
(* C10 amended: the same, with equivalentStorage =                         *)
(* (tankVolume / GALLONS_PER_FT3) x (P_in_abs - P_min_abs) / P_atm: the    *)
(* tank volume is entered in gallons and converted to cubic feet.          *)
(***************************************************************************)
C10_ReferenceFlowAndCoverage ==
  (TankPresent /\ IsPositive(TankCase.design)) =>
    TankReferenceAndCoverage(
      FDiv(FMul(FDiv(TankCase.system.tankVolume, GALLONS_PER_FT3), PressureSpan),
           P_ATM_PSIA))

(* A tank of 100 gallons, a positive design demand and a margin of exactly *)
(* 0: the reference flow is the design demand and the coverage is finite.  *)
C10_Witness ==
  /\ Returned("calculateTankMetrics")
  /\ ret # Null
  /\ IsPositive(call.totalDesignDemandScfm)
  /\ call.capacityMarginOrDeficitScfm = Zero
  /\ ret.referenceFlowScfm = call.totalDesignDemandScfm
  /\ IsPositive(ret.coverageTimeMinutes)
  /\ ret.coverageTimeMinutes[2] # SpecialExp

(* No row of the table has status OK. *)
NoRowOk(table) == \A i \in 1..Len(table) : table[i].status # "OK"

(***************************************************************************)
(* C11: for a segment with flow > 0 and at least one selected candidate,   *)
(* when no row of the table has status OK the status of the result of      *)
(* sizePipe, and so the status of a sub-drop result, is "No feasible       *)
(* size".                                                                  *)
(***************************************************************************)
C11_NoFeasibleSizeStatus ==
  /\ (/\ Returned("sizePipe")
      /\ IsPositive(call.flowScfm)
      /\ ~NoneSelected(call.candidatePipes)
      /\ NoRowOk(ret.table)) => ret.status = "No feasible size"
  /\ Returned("performAllCalculations") =>
       \A i \in 1..Len(ret.drops) :
         \A k \in 1..Len(ret.drops[i].subDropResults) :
           ret.drops[i].subDropResults[k].recommendedSize = "No feasible size" =>
             ret.drops[i].subDropResults[k].status = "No feasible size"

(* The first selected candidate of a list (there is one). *)
FirstSelected(pipes) ==
  pipes[CHOOSE i \in 1..Len(pipes) :
          pipes[i].selected /\ \A j \in 1..(i - 1) : ~pipes[j].selected]

(***************************************************************************)
(* C12: for a segment with flow > 0 and at least one selected candidate,   *)
(* when no row has status OK sizePipe recommends "No feasible size" and    *)
(* reports the velocity and the pressure drop of the first row, the row of *)
(* the first selected candidate in list order, which is a failing row; the *)
(* engine reports the same for its drops and sub-drops.                    *)
(***************************************************************************)
C12_FirstRowRepresents ==
  /\ (/\ Returned("sizePipe")
      /\ IsPositive(call.flowScfm)
      /\ ~NoneSelected(call.candidatePipes)
      /\ NoRowOk(ret.table)) =>
       /\ ret.recommended = "No feasible size"
       /\ Len(ret.table) > 0
       /\ ret.table[1].nominal = FirstSelected(call.candidatePipes).nominal
       /\ ret.table[1].id_in = FirstSelected(call.candidatePipes).id_in
       /\ ret.table[1].status # "OK"
       /\ ret.velocity = ret.table[1].velocity
       /\ ret.deltaP = ret.table[1].deltaP
  /\ Returned("performAllCalculations") =>
       \A i \in 1..Len(ret.drops) :
         /\ (Len(ret.drops[i].comparisonTable) > 0
               /\ NoRowOk(ret.drops[i].comparisonTable)) =>
              /\ ret.drops[i].recommendedSize = "No feasible size"
              /\ ret.drops[i].velocity = ret.drops[i].comparisonTable[1].velocity
              /\ ret.drops[i].deltaP = ret.drops[i].comparisonTable[1].deltaP
         /\ \A k \in 1..Len(ret.drops[i].subDropResults) :
              ret.drops[i].subDropResults[k].recommendedSize = "No feasible size" =>
                /\ ret.drops[i].subDropResults[k].sizingOptions[1].nominal =
                     FirstSelected(call.candidatePipes).nominal
                /\ ret.drops[i].subDropResults[k].velocity =
                     ret.drops[i].subDropResults[k].sizingOptions[1].velocity
                /\ ret.drops[i].subDropResults[k].deltaP =
                     ret.drops[i].subDropResults[k].sizingOptions[1].deltaP

(* Two failing rows that differ in velocity: the first one is reported. *)
C12_Witness ==
  /\ Returned("sizePipe")
  /\ Len(ret.table) = 2
  /\ NoRowOk(ret.table)
  /\ ret.table[1].velocity # ret.table[2].velocity
  /\ ret.recommended = "No feasible size"
  /\ ret.velocity = ret.table[1].velocity
  /\ ret.deltaP = ret.table[1].deltaP

(* p2_sq of the IFGC formula for a candidate of inside diameter d_in. *)
IfgcSquaredOutlet(flowScfm, p_in_abs_psia, length_ft, d_in) ==
  FSub(FMul(p_in_abs_psia, p_in_abs_psia),
       FMul(length_ft,
            FPow(FDiv(FMul(flowScfm, FromInt(60)),
                      FMul(FromInt(2207), FPow(d_in, Ratio(2582, 1000)))),
                 FDiv(FromInt(1), Ratio(522, 1000)))))

(* Row i of a sizePipe table is a row of natural gas whose p2_sq is negative. *)
SizePipeClamped(i) ==
  /\ call.gasType = "naturalGas"
  /\ IsPositive(call.flowScfm)
  /\ IsNegative(IfgcSquaredOutlet(call.flowScfm,
                                  FAdd(call.upstreamPressure_psig, P_ATM_PSIA),
                                  call.length_ft, ret.table[i].id_in))

HeaderClamped(i) ==
  /\ call.system.gasType = "naturalGas"
  /\ IsNegative(IfgcSquaredOutlet(call.designScfm,
                                  FAdd(call.system.inletPressure, P_ATM_PSIA),
                                  call.geometry.headerLength,
                                  ret.results.comparisonTable[i].id_in))

(***************************************************************************)
(* C13: in the natural gas branch, when p2_sq is negative for a candidate  *)
(* the outlet pressure is -P_ATM_PSIA gauge, the pressure drop is the      *)
(* inlet absolute pressure, and the status of the row is not OK, for every *)
(* required or minimum outlet pressure and every velocity ceiling, in      *)
(* sizePipe and in calculateHeaderSizing.                                  *)
(***************************************************************************)
C13_ClampedRowFails ==
  /\ Returned("sizePipe") =>
       \A i \in 1..Len(ret.table) :
         SizePipeClamped(i) =>
           /\ ret.table[i].deltaP = FAdd(call.upstreamPressure_psig, P_ATM_PSIA)
           /\ ret.table[i].status # "OK"
  /\ (Returned("calculateHeaderSizing") /\ ret.results # Null) =>
       \A i \in 1..Len(ret.results.comparisonTable) :
         HeaderClamped(i) =>
           /\ ret.results.comparisonTable[i].outletPressure = FNeg(P_ATM_PSIA)
           /\ ret.results.comparisonTable[i].deltaP =
                FAdd(call.system.inletPressure, P_ATM_PSIA)
           /\ ret.results.comparisonTable[i].status # "OK"

(* The same for outlet pressures above absolute zero: the clamped row fails. *)
C13_AboveAbsoluteZero ==
  /\ (Returned("sizePipe")
        /\ FCmp(call.requiredOutletPressure_psig, FNeg(P_ATM_PSIA)) = 1) =>
       \A i \in 1..Len(ret.table) :
         SizePipeClamped(i) =>
           /\ ret.table[i].deltaP = FAdd(call.upstreamPressure_psig, P_ATM_PSIA)
           /\ ret.table[i].status # "OK"
  /\ (Returned("calculateHeaderSizing") /\ ret.results # Null
        /\ FCmp(call.system.minOutletPressure, FNeg(P_ATM_PSIA)) = 1) =>
       \A i \in 1..Len(ret.results.comparisonTable) :
         HeaderClamped(i) =>
           /\ ret.results.comparisonTable[i].outletPressure = FNeg(P_ATM_PSIA)
           /\ ret.results.comparisonTable[i].status # "OK"

(* A number that is neither NaN nor an infinity. *)
IsFinite(x) == x[2] # SpecialExp

RowsFinite(table) ==
  \A i \in 1..Len(table) :
    /\ IsFinite(table[i].velocity)
    /\ IsFinite(table[i].deltaP)
    /\ table[i].outletPressure # NullNum => IsFinite(table[i].outletPressure)

SubDropsFinite(subs) ==
  \A k \in 1..Len(subs) :
    /\ IsFinite(subs[k].velocity)
    /\ IsFinite(subs[k].deltaP)
    /\ RowsFinite(subs[k].sizingOptions)

(***************************************************************************)
(* C14: for every input, the nonsensical ones included (a candidate of     *)
(* diameter 0, an inlet pressure or a temperature at absolute zero), every *)
(* numeric field of the engine's result is finite, the coverage time of    *)
(* the tank alone being allowed to be infinite.                            *)
(***************************************************************************)
C14_NumericFieldsFinite ==
  Returned("performAllCalculations") =>
    /\ IsFinite(ret.totalDemandScfm)
    /\ IsFinite(ret.totalDesignDemandScfm)
    /\ IsFinite(ret.capacityMarginOrDeficitScfm)
    /\ IsFinite(ret.headerDesignScfm)
    /\ ret.header # Null =>
         /\ IsFinite(ret.header.outletPressure)
         /\ IsFinite(ret.header.designScfm)
         /\ IsFinite(ret.header.velocity)
         /\ RowsFinite(ret.header.comparisonTable)
    /\ ret.tankMetrics # Null =>
         /\ IsFinite(ret.tankMetrics.equivalentStorageScf)
         /\ IsFinite(ret.tankMetrics.referenceFlowScfm)
    /\ \A i \in 1..Len(ret.drops) :
         /\ IsFinite(ret.drops[i].usedFlow)
         /\ IsFinite(ret.drops[i].subDropTotalFlow)
         /\ IsFinite(ret.drops[i].velocity)
         /\ IsFinite(ret.drops[i].deltaP)
         /\ RowsFinite(ret.drops[i].comparisonTable)
         /\ SubDropsFinite(ret.drops[i].subDropResults)

(* Two applications of sizePipe to the same segment and the same candidates, *)
(* the flow left aside.                                                      *)
SameSegment(c1, c2) ==
  /\ c1.fn = "sizePipe"
  /\ c2.fn = "sizePipe"
  /\ [c1 EXCEPT !.flowScfm = Zero] = [c2 EXCEPT !.flowScfm = Zero]

NotBelow(x, y) == FCmp(x, y) \in {0, 1}

(***************************************************************************)
(* C15: of two applications of sizePipe to the same segment and the same   *)
(* candidates with flows 0 < q1 <= q2, the one with q2 gives every         *)
(* candidate a velocity and a pressure drop not below those the one with   *)
(* q1 gives it, for fuel gas (clamped rows included) and for air.          *)
(***************************************************************************)
C15_MonotoneInFlow ==
  Returned("sizePipe") =>
    \A h \in 1..Len(history) :
      (/\ SameSegment(history[h].call, call)
       /\ IsPositive(history[h].call.flowScfm)
       /\ IntOf(history[h].call.flowScfm) <= IntOf(call.flowScfm)) =>
        \A i \in 1..Len(ret.table) :
          /\ NotBelow(ret.table[i].velocity, history[h].ret.table[i].velocity)
          /\ NotBelow(ret.table[i].deltaP, history[h].ret.table[i].deltaP)

(* The same for fuel gas alone. *)
C15_MonotoneFuelGas ==
  (Returned("sizePipe") /\ call.gasType = "naturalGas") => C15_MonotoneInFlow

OneResultPerNode(drops, results) ==
  /\ Len(results) = Len(drops)
  /\ \A i \in 1..Len(drops) :
       /\ results[i].id = drops[i].id
       /\ results[i].name = drops[i].name
       /\ Len(results[i].subDropResults) = Len(drops[i].subDrops)
       /\ \A k \in 1..Len(drops[i].subDrops) :
            /\ results[i].subDropResults[k].name = drops[i].subDrops[k].name
            /\ results[i].subDropResults[k].reqFlow = drops[i].subDrops[k].reqFlow

(***************************************************************************)
(* C17: whatever the inclusion flags of the candidates and the flows, the  *)
(* engine's drops are the drops of the input tree, one result for each, in *)
(* input order and with its identity, each with one sub-drop result for    *)
(* each of its sub-drops in input order.                                   *)
(***************************************************************************)
C17_OneResultPerDrop ==
  Returned("performAllCalculations") => OneResultPerNode(call.drops, ret.drops)

(* The same for the calls in which some candidate is included. *)
C17_WhenSomeSelected ==
  (Returned("performAllCalculations") /\ ~NoneSelected(call.candidatePipes)) =>
    OneResultPerNode(call.drops, ret.drops)

(* The comparison table of a sub-drop of the call: sizePipe applied to its *)
(* design flow and its segment, on the included candidates.                *)
SubDropTable(sd) ==
  sizePipe(FDiv(FMul(sd.reqFlow, call.systemInputs.demandSafetyFactor),
                InternalUnit(call.systemInputs.gasType)),
           sd.length, call.systemInputs.inletPressure, sd.reqPressure,
           call.headerGeometry.maxLineVelocity, call.headerGeometry.airTemperature,
           call.headerGeometry.pipeRoughness, SelectedPipes(call.candidatePipes),
           call.systemInputs.gasType).table

OkCount(table, n) == Cardinality({m \in 1..n : table[m].severity = "ok"})

Least(a, b) == IF a <= b THEN a ELSE b

(* opts are the first three ok rows of the table, or the first three rows *)
(* if no row is ok.                                                        *)
OptionsOf(table, opts) ==
  IF OkCount(table, Len(table)) > 0
  THEN /\ Len(opts) = Least(3, OkCount(table, Len(table)))
       /\ \A j \in 1..Len(opts) :
            /\ opts[j].severity = "ok"
            /\ \E i \in 1..Len(table) :
                 /\ table[i] = opts[j]
                 /\ table[i].severity = "ok"
                 /\ OkCount(table, i - 1) = j - 1
  ELSE /\ Len(opts) = Least(3, Len(table))
       /\ \A j \in 1..Len(opts) : opts[j] = table[j]

(***************************************************************************)
(* C18: the sizingOptions of every sub-drop result are at most 3 rows of   *)
(* the sub-drop's comparison table in candidate order: the first           *)
(* min(3, number of ok rows) rows of severity ok and no other row if the   *)
(* table has a row of severity ok, the first min(3, length) rows if not.   *)
(***************************************************************************)
C18_SizingOptions ==
  Returned("performAllCalculations") =>
    \A i \in 1..Len(ret.drops) :
      \A k \in 1..Len(ret.drops[i].subDropResults) :
        /\ Len(ret.drops[i].subDropResults[k].sizingOptions) <= 3
        /\ OptionsOf(SubDropTable(call.drops[i].subDrops[k]),
                     ret.drops[i].subDropResults[k].sizingOptions)

(* A sub-drop sized on five candidates, the first not ok and four ok: its  *)
(* options are the three ok rows after the first row.                      *)
C18_Witness ==
  /\ Returned("performAllCalculations")
  /\ Len(ret.drops) = 1
  /\ Len(ret.drops[1].subDropResults) = 1
  /\ Len(SubDropTable(call.drops[1].subDrops[1])) = 5
  /\ SubDropTable(call.drops[1].subDrops[1])[1].severity # "ok"
  /\ OkCount(SubDropTable(call.drops[1].subDrops[1]), 5) = 4
  /\ Len(ret.drops[1].subDropResults[1].sizingOptions) = 3
  /\ ret.drops[1].subDropResults[1].sizingOptions[1].nominal = "1\""

(* A sub-drop sized on five candidates none of which is ok: its options    *)
(* are the first three rows.                                               *)
C18_WitnessNoneOk ==
  /\ Returned("performAllCalculations")
  /\ Len(ret.drops) = 1
  /\ Len(ret.drops[1].subDropResults) = 1
  /\ Len(SubDropTable(call.drops[1].subDrops[1])) = 5
  /\ OkCount(SubDropTable(call.drops[1].subDrops[1]), 5) = 0
  /\ Len(ret.drops[1].subDropResults[1].sizingOptions) = 3

(* The design flow of a sub-drop of the call, in the engine's unit. *)
SubDropDesignFlow(sd) ==
  FDiv(FMul(sd.reqFlow, call.systemInputs.demandSafetyFactor),
       InternalUnit(call.systemInputs.gasType))

(***************************************************************************)
(* C19, as stated: every sub-drop result of the engine has a non-empty     *)
(* sizingOptions.  It fails for a sub-drop of flow <= 0, whose table is    *)
(* empty.                                                                  *)
(***************************************************************************)
C19_OptionsNonEmpty ==
  Returned("performAllCalculations") =>
    \A i \in 1..Len(ret.drops) :
      \A k \in 1..Len(ret.drops[i].subDropResults) :
        Len(ret.drops[i].subDropResults[k].sizingOptions) > 0

(***************************************************************************)
(* C19, amended: every sub-drop result of the engine whose design flow is  *)
(* positive has a non-empty sizingOptions, even when no candidate is ok    *)
(* for that sub-drop.                                                      *)
(***************************************************************************)
C19_ActiveOptionsNonEmpty ==
  Returned("performAllCalculations") =>
    \A i \in 1..Len(ret.drops) :
      \A k \in 1..Len(ret.drops[i].subDropResults) :
        IsPositive(SubDropDesignFlow(call.drops[i].subDrops[k])) =>
          Len(ret.drops[i].subDropResults[k].sizingOptions) > 0

(* A sub-drop of positive flow for which no candidate qualifies, with its  *)
(* options all the same.                                                   *)
C19_Witness ==
  /\ Returned("performAllCalculations")
  /\ \E i \in 1..Len(ret.drops) :
       \E k \in 1..Len(ret.drops[i].subDropResults) :
         /\ IsPositive(call.drops[i].subDrops[k].reqFlow)
         /\ ret.drops[i].subDropResults[k].recommendedSize = "No feasible size"
         /\ Len(ret.drops[i].subDropResults[k].sizingOptions) > 0
         /\ \A j \in 1..Len(ret.drops[i].subDropResults[k].sizingOptions) :
              ret.drops[i].subDropResults[k].sizingOptions[j].severity # "ok"

(* max(1e-6, upstream - required outlet pressure) *)
AllowedDrop(upstream, required) == FMax(MIN_ALLOWED_DELTA_P, FSub(upstream, required))

RowClassified(row, ceiling, allowedDrop) ==
  /\ row.status \in {"OK", "High velocity", "Excessive ΔP",
                     "High velocity & Excessive ΔP"}
  /\ row.status = "OK" <=>
       (FLe(row.velocity, ceiling) /\ FLe(row.deltaP, allowedDrop))
  /\ row.status = "High velocity" <=>
       (~FLe(row.velocity, ceiling) /\ FLe(row.deltaP, allowedDrop))
  /\ row.status = "Excessive ΔP" <=>
       (FLe(row.velocity, ceiling) /\ ~FLe(row.deltaP, allowedDrop))
  /\ row.status = "High velocity & Excessive ΔP" <=>
       (~FLe(row.velocity, ceiling) /\ ~FLe(row.deltaP, allowedDrop))

TableClassified(table, ceiling, allowedDrop) ==
  \A i \in 1..Len(table) : RowClassified(table[i], ceiling, allowedDrop)

(***************************************************************************)
(* C20: with allowedDrop = max(1e-6, upstream - required outlet pressure), *)
(* every row of sizePipe has status OK iff velocity <= ceiling and         *)
(* pressure drop <= allowedDrop, High velocity iff the velocity bound      *)
(* alone fails, Excessive ΔP iff the pressure bound alone fails, and both  *)
(* labels iff both fail; the rows of the engine's drop tables and of its   *)
(* sub-drops' options have no other status.                                *)
(***************************************************************************)
C20_RowStatus ==
  /\ Returned("sizePipe") =>
       TableClassified(ret.table, call.maxVelocity_fts,
                       AllowedDrop(call.upstreamPressure_psig,
                                   call.requiredOutletPressure_psig))
  /\ Returned("performAllCalculations") =>
       \A i \in 1..Len(ret.drops) :
         /\ TableClassified(ret.drops[i].comparisonTable,
                            call.headerGeometry.maxLineVelocity,
                            AllowedDrop(call.systemInputs.inletPressure,
                                        call.drops[i].reqPressure))
         /\ \A k \in 1..Len(ret.drops[i].subDropResults) :
              TableClassified(ret.drops[i].subDropResults[k].sizingOptions,
                              call.headerGeometry.maxLineVelocity,
                              AllowedDrop(call.systemInputs.inletPressure,
                                          call.drops[i].subDrops[k].reqPressure))

(* A row whose pressure drop is exactly the allowed drop, and is OK. *)
C20_Witness ==
  /\ Returned("sizePipe")
  /\ Len(ret.table) > 0
  /\ IsPositive(ret.table[1].deltaP)
  /\ ret.table[1].deltaP = AllowedDrop(call.upstreamPressure_psig,
                                       call.requiredOutletPressure_psig)
  /\ ret.table[1].status = "OK"

(* The tier of a row from its status, its velocity and its pressure drop. *)
RowSeverity(row, ceiling, allowedDrop) ==
  IF row.status = "OK" THEN "ok"
  ELSE IF \/ FGt(row.velocity, FMul(BADLY_FACTOR, ceiling))
          \/ (IsPositive(allowedDrop)
              /\ FGt(row.deltaP, FMul(BADLY_FACTOR, allowedDrop)))
       THEN "bad"
       ELSE "warn"

TableSeverity(table, ceiling, allowedDrop) ==
  \A i \in 1..Len(table) :
    table[i].severity = RowSeverity(table[i], ceiling, allowedDrop)

(***************************************************************************)
(* C21: in every comparison table (header, drop, options of a sub-drop) a  *)
(* row's severity is ok iff its status is OK; otherwise bad iff its        *)
(* velocity is above 1.5 x ceiling or the allowed drop is > 0 and its      *)
(* pressure drop above 1.5 x the allowed drop; otherwise warn.  The        *)
(* allowed drop of a header row is inlet pressure - minimum outlet         *)
(* pressure, so that with this difference <= 0 a header row failing on     *)
(* pressure alone is warn.                                                 *)
(***************************************************************************)
C21_Severity ==
  /\ Returned("sizePipe") =>
       TableSeverity(ret.table, call.maxVelocity_fts,
                     AllowedDrop(call.upstreamPressure_psig,
                                 call.requiredOutletPressure_psig))
  /\ (Returned("calculateHeaderSizing") /\ ret.results # Null) =>
       /\ TableSeverity(ret.results.comparisonTable, call.geometry.maxLineVelocity,
                        FSub(call.system.inletPressure, call.system.minOutletPressure))
       /\ NonPositive(FSub(call.system.inletPressure, call.system.minOutletPressure)) =>
            \A i \in 1..Len(ret.results.comparisonTable) :
              ret.results.comparisonTable[i].status = "Insufficient outlet pressure"
                => ret.results.comparisonTable[i].severity = "warn"
  /\ Returned("performAllCalculations") =>
       /\ ret.header # Null =>
            TableSeverity(ret.header.comparisonTable,
                          call.headerGeometry.maxLineVelocity,
                          FSub(call.systemInputs.inletPressure,
                               call.systemInputs.minOutletPressure))
       /\ \A i \in 1..Len(ret.drops) :
            /\ TableSeverity(ret.drops[i].comparisonTable,
                             call.headerGeometry.maxLineVelocity,
                             AllowedDrop(call.systemInputs.inletPressure,
                                         call.drops[i].reqPressure))
            /\ \A k \in 1..Len(ret.drops[i].subDropResults) :
                 TableSeverity(ret.drops[i].subDropResults[k].sizingOptions,
                               call.headerGeometry.maxLineVelocity,
                               AllowedDrop(call.systemInputs.inletPressure,
                                           call.drops[i].subDrops[k].reqPressure))

(* A header sized with a minimum outlet pressure above the inlet pressure: *)
(* a row failing on pressure alone, and warn.                              *)
C21_Witness ==
  /\ Returned("calculateHeaderSizing")
  /\ ret.results # Null
  /\ IsNegative(FSub(call.system.inletPressure, call.system.minOutletPressure))
  /\ \E i \in 1..Len(ret.results.comparisonTable) :
       /\ ret.results.comparisonTable[i].status = "Insufficient outlet pressure"
       /\ IsPositive(ret.results.comparisonTable[i].deltaP)
       /\ ret.results.comparisonTable[i].severity = "warn"

(* inlet = outletPressure + deltaP, up to the rounding of the subtraction *)
(* that gave the one from the other.                                      *)
OutletIsInletMinusDrop(row, inlet) ==
  \/ row.outletPressure = FSub(inlet, row.deltaP)
  \/ row.deltaP = FSub(inlet, row.outletPressure)

HeaderRowClassified(row, inlet, minOutlet, ceiling) ==
  /\ row.outletPressure # NullNum
  /\ OutletIsInletMinusDrop(row, inlet)
  /\ row.status = "OK" <=>
       (FGe(row.outletPressure, minOutlet) /\ FLe(row.velocity, ceiling))
  /\ row.status = "Insufficient outlet pressure" <=>
       (~FGe(row.outletPressure, minOutlet) /\ FLe(row.velocity, ceiling))
  /\ row.status = "High velocity" <=>
       (FGe(row.outletPressure, minOutlet) /\ ~FLe(row.velocity, ceiling))
  /\ row.status = "High velocity & Excessive ΔP" <=>
       (~FGe(row.outletPressure, minOutlet) /\ ~FLe(row.velocity, ceiling))

HeaderTableClassified(table, inlet, minOutlet, ceiling) ==
  \A i \in 1..Len(table) : HeaderRowClassified(table[i], inlet, minOutlet, ceiling)

NoOutletPressure(table) ==
  \A i \in 1..Len(table) : table[i].outletPressure = NullNum

(***************************************************************************)
(* C22: every header row reports a numeric outletPressure, the inlet       *)
(* pressure minus the row's pressure drop; its status is OK iff            *)
(* outletPressure >= minimum outlet pressure and velocity <= ceiling,      *)
(* Insufficient outlet pressure iff the pressure test alone fails, High    *)
(* velocity iff the velocity test alone fails, the combined status iff     *)
(* both fail.  Every row of a drop or a sub-drop has no outletPressure.    *)
(***************************************************************************)
C22_HeaderRows ==
  /\ (Returned("calculateHeaderSizing") /\ ret.results # Null) =>
       HeaderTableClassified(ret.results.comparisonTable, call.system.inletPressure,
                             call.system.minOutletPressure,
                             call.geometry.maxLineVelocity)
  /\ Returned("sizePipe") => NoOutletPressure(ret.table)
  /\ Returned("performAllCalculations") =>
       /\ ret.header # Null =>
            HeaderTableClassified(ret.header.comparisonTable,
                                  call.systemInputs.inletPressure,
                                  call.systemInputs.minOutletPressure,
                                  call.headerGeometry.maxLineVelocity)
       /\ \A i \in 1..Len(ret.drops) :
            /\ NoOutletPressure(ret.drops[i].comparisonTable)
            /\ \A k \in 1..Len(ret.drops[i].subDropResults) :
                 NoOutletPressure(ret.drops[i].subDropResults[k].sizingOptions)

(* A header row whose outlet pressure is exactly the minimum, and is OK. *)
C22_Witness ==
  /\ Returned("calculateHeaderSizing")
  /\ ret.results # Null
  /\ \E i \in 1..Len(ret.results.comparisonTable) :
       /\ ret.results.comparisonTable[i].outletPressure = call.system.minOutletPressure
       /\ IsPositive(ret.results.comparisonTable[i].deltaP)
       /\ ret.results.comparisonTable[i].status = "OK"

(* The number of included candidates among the first n. *)
SelCount(pipes, n) == Cardinality({m \in 1..n : pipes[m].selected})

(* One row for each included candidate, in the order of the list, with its *)
(* label and its diameter.                                                 *)
RowsOfIncluded(pipes, table) ==
  /\ Len(table) = SelCount(pipes, Len(pipes))
  /\ \A i \in 1..Len(pipes) :
       pipes[i].selected =>
         /\ table[SelCount(pipes, i)].nominal = pipes[i].nominal
         /\ table[SelCount(pipes, i)].id_in = pipes[i].id_in

(* A sentinel, or the label of an included candidate. *)
IncludedOrSentinel(pipes, recommended) ==
  \/ recommended \in {"No feasible size", "N/A (Inactive)"}
  \/ \E i \in 1..Len(pipes) : pipes[i].selected /\ pipes[i].nominal = recommended

(* Every row is the row of an included candidate. *)
RowsAmongIncluded(pipes, table) ==
  \A j \in 1..Len(table) :
    \E i \in 1..Len(pipes) :
      /\ pipes[i].selected
      /\ pipes[i].nominal = table[j].nominal
      /\ pipes[i].id_in = table[j].id_in

(***************************************************************************)
(* C23: for a flow > 0 the comparison table of a segment (header, drop,    *)
(* sub-drop) has one row for each candidate whose inclusion flag is set,   *)
(* in the order of the candidate list, with that candidate's label and     *)
(* diameter; a candidate whose flag is not set has no row in any table and *)
(* is never recommended.                                                   *)
(***************************************************************************)
C23_RowsAreIncludedCandidates ==
  /\ (Returned("sizePipe") /\ IsPositive(call.flowScfm)) =>
       /\ RowsOfIncluded(call.candidatePipes, ret.table)
       /\ IncludedOrSentinel(call.candidatePipes, ret.recommended)
  /\ (Returned("calculateHeaderSizing") /\ ret.results # Null) =>
       /\ RowsOfIncluded(call.pipes, ret.results.comparisonTable)
       /\ IncludedOrSentinel(call.pipes, ret.results.recommendedSize)
  /\ Returned("performAllCalculations") =>
       /\ ret.header # Null =>
            /\ RowsOfIncluded(call.candidatePipes, ret.header.comparisonTable)
            /\ IncludedOrSentinel(call.candidatePipes, ret.header.recommendedSize)
       /\ \A i \in 1..Len(ret.drops) :
            /\ IsPositive(ret.drops[i].usedFlow) =>
                 RowsOfIncluded(call.candidatePipes, ret.drops[i].comparisonTable)
            /\ IncludedOrSentinel(call.candidatePipes, ret.drops[i].recommendedSize)
            /\ \A k \in 1..Len(ret.drops[i].subDropResults) :
                 /\ RowsAmongIncluded(call.candidatePipes,
                                      ret.drops[i].subDropResults[k].sizingOptions)
                 /\ IncludedOrSentinel(call.candidatePipes,
                                       ret.drops[i].subDropResults[k].recommendedSize)

(* sizePipe on a list whose first candidate is left out and whose second   *)
(* is included: one row, the second candidate's.                           *)
C23_Witness ==
  /\ Returned("sizePipe")
  /\ IsPositive(call.flowScfm)
  /\ Len(call.candidatePipes) = 2
  /\ ~call.candidatePipes[1].selected
  /\ call.candidatePipes[2].selected
  /\ call.candidatePipes[1].nominal # call.candidatePipes[2].nominal
  /\ Len(ret.table) = 1
  /\ ret.table[1].nominal = call.candidatePipes[2].nominal

(* The design flow of the i-th drop result, in the engine's unit. *)
DesignFlowOf(i) ==
  FDiv(FMul(ret.drops[i].usedFlow, call.systemInputs.demandSafetyFactor),
       InternalUnit(call.systemInputs.gasType))

(* The i-th drop is the first one, in input order, of positive design flow. *)
FirstPositiveDrop(i) ==
  /\ IsPositive(DesignFlowOf(i))
  /\ \A j \in 1..(i - 1) : ~IsPositive(DesignFlowOf(j))

(* The sample-drop entry is there and describes the i-th drop. *)
SampleDescribes(i) ==
  /\ ret.details.sampleDrop # Null
  /\ ret.details.sampleDrop.name = call.drops[i].name
  /\ ret.details.sampleDrop.q_scfm = DesignFlowOf(i)
  /\ ret.details.sampleDrop.allowed_deltaP =
       AllowedDrop(call.systemInputs.inletPressure, call.drops[i].reqPressure)

(***************************************************************************)
(* C24: whenever a candidate is included and some drop has a positive      *)
(* design flow, the trace of the result has a sample-drop entry, and the   *)
(* entry describes the first drop, in input order, of positive design      *)
(* flow: its name, its design flow, its allowed pressure drop.             *)
(***************************************************************************)
C24_SampleDropIsFirstActive ==
  Returned("performAllCalculations") =>
    \A i \in 1..Len(ret.drops) : FirstPositiveDrop(i) => SampleDescribes(i)

(* The same for the results whose first drop of positive design flow has a *)
(* feasible size; without one, there is no entry at all.                   *)
C24_WhenFirstActiveFeasible ==
  Returned("performAllCalculations") =>
    \A i \in 1..Len(ret.drops) :
      FirstPositiveDrop(i) =>
        IF ret.drops[i].recommendedSize # "No feasible size"
        THEN SampleDescribes(i)
        ELSE ret.details.sampleDrop = Null

(* What the air iteration reads of a segment. *)
AirSegment(flow, length, upstream, temperature, roughness) ==
  [flowScfm |-> flow, length_ft |-> length, upstreamPressure_psig |-> upstream,
   pipeRoughness_ft |-> roughness, GAS |-> GAS_PROPERTIES["air"],
   t_abs_R |-> toAbsRankine(temperature),
   p_in_abs_psia |-> FAdd(upstream, P_ATM_PSIA)]

(* One pass for a candidate of inside diameter id_in from the estimate p. *)
PassFrom(s, id_in, p) ==
  SizePipeAirPass(s, FDiv(id_in, IN_PER_FT),
                  FDiv(FMul(FMul(PI, FDiv(id_in, IN_PER_FT)), FDiv(id_in, IN_PER_FT)),
                       FOUR),
                  p)

(* The outcomes of n passes in a row from the seed, the seed first. *)
RECURSIVE PassesFrom(_, _, _, _)
PassesFrom(n, s, id_in, seed) ==
  IF n = 0 THEN << [p_out |-> seed] >>
  ELSE LET prev == PassesFrom(n - 1, s, id_in, seed)
       IN  Append(prev, PassFrom(s, id_in, prev[Len(prev)].p_out))

(* The fifth of five passes in a row from the seed. *)
FifthPass(s, id_in, seed) == PassesFrom(5, s, id_in, seed)[6]

(* Every row carries the velocity and the drop of the fifth pass. *)
RowsOfFifthPass(table, s, seed) ==
  \A i \in 1..Len(table) :
    /\ table[i].velocity = FifthPass(s, table[i].id_in, seed).v
    /\ table[i].deltaP = FifthPass(s, table[i].id_in, seed).deltaP

(* The rows of sizePipe, applied directly and to the drops of the engine. *)
SizePipeRowsOfFifthPass ==
  /\ (Returned("sizePipe") /\ call.gasType = "air") =>
       RowsOfFifthPass(ret.table,
                       AirSegment(call.flowScfm, call.length_ft,
                                  call.upstreamPressure_psig, call.airTemperature_F,
                                  call.pipeRoughness_ft),
                       call.requiredOutletPressure_psig)
  /\ (Returned("performAllCalculations") /\ call.systemInputs.gasType = "air") =>
       \A i \in 1..Len(ret.drops) :
         RowsOfFifthPass(ret.drops[i].comparisonTable,
                         AirSegment(DesignFlowOf(i),
                                    call.drops[i].length,
                                    call.systemInputs.inletPressure,
                                    call.headerGeometry.airTemperature,
                                    call.headerGeometry.pipeRoughness),
                         call.drops[i].reqPressure)

(* The rows of the header, applied directly and by the engine. *)
HeaderRowsOfFifthPass ==
  /\ (Returned("calculateHeaderSizing") /\ call.system.gasType = "air"
        /\ ret.results # Null) =>
       RowsOfFifthPass(ret.results.comparisonTable,
                       AirSegment(call.designScfm, call.geometry.headerLength,
                                  call.system.inletPressure,
                                  call.geometry.airTemperature,
                                  call.geometry.pipeRoughness),
                       call.system.minOutletPressure)
  /\ (Returned("performAllCalculations") /\ call.systemInputs.gasType = "air"
        /\ ret.header # Null) =>
       RowsOfFifthPass(ret.header.comparisonTable,
                       AirSegment(ret.headerDesignScfm,
                                  call.headerGeometry.headerLength,
                                  call.systemInputs.inletPressure,
                                  call.headerGeometry.airTemperature,
                                  call.headerGeometry.pipeRoughness),
                       call.systemInputs.minOutletPressure)

(***************************************************************************)
(* C25: in the air branch every included candidate is evaluated by five    *)
(* passes, neither fewer nor more, the first from an outlet estimate equal *)
(* to the required downstream pressure of the segment (the required        *)
(* pressure of a drop, the minimum outlet pressure of the header), and the *)
(* row carries the velocity and the pressure drop of the fifth pass.       *)
(***************************************************************************)
C25_FivePassesFromRequired == SizePipeRowsOfFifthPass /\ HeaderRowsOfFifthPass

(* The same for the rows of sizePipe alone. *)
C25_SizePipeFivePasses == SizePipeRowsOfFifthPass

(* Two tables have the same candidates, velocities and pressure drops. *)
SameFlowRows(headerTable, segmentTable) ==
  /\ Len(headerTable) = Len(segmentTable)
  /\ \A i \in 1..Len(headerTable) :
       /\ headerTable[i].nominal = segmentTable[i].nominal
       /\ headerTable[i].velocity = segmentTable[i].velocity
       /\ headerTable[i].deltaP = segmentTable[i].deltaP

(* The table sizePipe gives for the header segment, the minimum outlet *)
(* pressure of the system as its downstream reference.                 *)
HeaderAsSegment(designScfm, system, geometry, pipes) ==
  sizePipe(designScfm, geometry.headerLength, system.inletPressure,
           system.minOutletPressure, geometry.maxLineVelocity,
           geometry.airTemperature, geometry.pipeRoughness, pipes,
           system.gasType).table

HeaderIsSizePipe(gases) ==
  /\ (Returned("calculateHeaderSizing") /\ call.system.gasType \in gases
        /\ ret.results # Null) =>
       SameFlowRows(ret.results.comparisonTable,
                    HeaderAsSegment(call.designScfm, call.system, call.geometry,
                                    call.pipes))
  /\ (Returned("performAllCalculations") /\ call.systemInputs.gasType \in gases
        /\ ret.header # Null) =>
       SameFlowRows(ret.header.comparisonTable,
                    HeaderAsSegment(ret.headerDesignScfm, call.systemInputs,
                                    call.headerGeometry, call.candidatePipes))

(***************************************************************************)
(* C26: for air and for naturalGas, the velocity and the pressure drop of  *)
(* every header row equal those sizePipe computes for the same candidate   *)
(* from the same gas, flow, length, inlet pressure, temperature and        *)
(* roughness, with the minimum outlet pressure as downstream reference.    *)
(***************************************************************************)
C26_HeaderIsSizePipe == HeaderIsSizePipe({"air", "naturalGas"})

(* The same for naturalGas alone. *)
C26_FuelGasHeaderIsSizePipe == HeaderIsSizePipe({"naturalGas"})

(* What sizePipe gives for a sub-drop taken by itself: its own flow times *)
(* the safety factor in the engine's unit, its own length and required     *)
(* pressure, the inputs of the system and the included candidates.         *)
SubDropAlone(sd) ==
  sizePipe(SubDropDesignFlow(sd), sd.length, call.systemInputs.inletPressure,
           sd.reqPressure, call.headerGeometry.maxLineVelocity,
           call.headerGeometry.airTemperature, call.headerGeometry.pipeRoughness,
           SelectSeq(call.candidatePipes, LAMBDA p : p.selected),
           call.systemInputs.gasType)

(* The result r of a sub-drop is the one of the sub-drop taken by itself. *)
SizedAlone(r, sd) ==
  /\ r.recommendedSize = SubDropAlone(sd).recommended
  /\ r.status = SubDropAlone(sd).status
  /\ r.velocity = SubDropAlone(sd).velocity
  /\ r.deltaP = SubDropAlone(sd).deltaP
  /\ OptionsOf(SubDropAlone(sd).table, r.sizingOptions)
  /\ r.name = sd.name /\ r.length = sd.length
  /\ r.reqFlow = sd.reqFlow /\ r.reqPressure = sd.reqPressure

(* Another tree with the same sub-drop: a parent of another flow, length *)
(* and required pressure, no sibling and no other drop.                    *)
OtherTree(sd) ==
  << [id |-> "drop-9", name |-> "Drop 9", length |-> FromInt(900),
      reqPressure |-> FromInt(120), reqFlow |-> FromInt(4000),
      subDrops |-> <<sd>>] >>

SubDropInOtherTree(sd) ==
  performAllCalculations(call.systemInputs, call.headerGeometry,
                         call.candidatePipes,
                         OtherTree(sd)).drops[1].subDropResults[1]

(***************************************************************************)
(* C27: every sub-drop is sized by itself.  Its result is the one of its   *)
(* own flow times the safety factor (unit-converted), its own length and   *)
(* required pressure, the system inputs, the geometry and the candidates;  *)
(* a tree with another parent (flow, length, required pressure), without   *)
(* the siblings and without the other drops gives the same result for it.  *)
(***************************************************************************)
C27_SubDropsIndependent ==
  Returned("performAllCalculations") =>
    \A i \in 1..Len(ret.drops) :
      \A k \in 1..Len(ret.drops[i].subDropResults) :
        /\ SizedAlone(ret.drops[i].subDropResults[k], call.drops[i].subDrops[k])
        /\ ret.drops[i].subDropResults[k] =
             SubDropInOtherTree(call.drops[i].subDrops[k])

(* A drop with two sub-drops of positive flow, the second one feasible and *)
(* its velocity not the one of its parent nor the one of its sibling's     *)
(* line plus its own.                                                      *)
C27_Witness ==
  /\ Returned("performAllCalculations")
  /\ \E i \in 1..Len(ret.drops) :
       /\ Len(ret.drops[i].subDropResults) = 2
       /\ IsPositive(call.drops[i].subDrops[1].reqFlow)
       /\ IsPositive(call.drops[i].subDrops[2].reqFlow)
       /\ ret.drops[i].subDropResults[2].status = "OK"
       /\ ret.drops[i].subDropResults[2].velocity # ret.drops[i].velocity
       /\ call.drops[i].reqFlow # call.drops[i].subDrops[2].reqFlow

(* The header result h names no size and stands for the first row. *)
FirstRowReported(h) ==
  /\ h.recommendedSize = "No feasible size"
  /\ h.velocity = h.comparisonTable[1].velocity
  /\ h.outletPressure = h.comparisonTable[1].outletPressure

(***************************************************************************)
(* C28: when header sizing runs and no header row has status OK, the       *)
(* recommended size is 'No feasible size' and the velocity and the outlet  *)
(* pressure of the result are those of the first evaluated header row.     *)
(***************************************************************************)
C28_HeaderFallsBackToFirstRow ==
  /\ (Returned("calculateHeaderSizing") /\ ret.results # Null
        /\ NoRowOk(ret.results.comparisonTable)) => FirstRowReported(ret.results)
  /\ (Returned("performAllCalculations") /\ ret.header # Null
        /\ NoRowOk(ret.header.comparisonTable)) => FirstRowReported(ret.header)

(* The sentinel alone is reported whenever no header row is OK. *)
C28_SentinelWhenNoneOk ==
  /\ (Returned("calculateHeaderSizing") /\ ret.results # Null
        /\ NoRowOk(ret.results.comparisonTable)) =>
       ret.results.recommendedSize = "No feasible size"
  /\ (Returned("performAllCalculations") /\ ret.header # Null
        /\ NoRowOk(ret.header.comparisonTable)) =>
       ret.header.recommendedSize = "No feasible size"

(* The absolute value of x. *)
Magnitude(x) == IF IsNegative(x) THEN <<0 - x[1], x[2]>> ELSE x

(***************************************************************************)
(* C29: in every result of the engine that has tank metrics,               *)
(* isCoveringDeficit is true exactly when capacityStatus is SHORTFALL      *)
(* (false for OK and for No demand), and in the SHORTFALL case the tank's  *)
(* reference flow is the absolute value of the reported capacity deficit.  *)
(***************************************************************************)
C29_CoveringDeficitIsShortfall ==
  (Returned("performAllCalculations") /\ ret.tankMetrics # Null) =>
    /\ ret.tankMetrics.isCoveringDeficit <=> (ret.capacityStatus = "SHORTFALL")
    /\ ret.capacityStatus = "SHORTFALL" =>
         ret.tankMetrics.referenceFlowScfm = Magnitude(ret.capacityMarginOrDeficitScfm)

(* A shortfall with a tank: the deficit is negative, the reference flow *)
(* positive and smaller than the design demand.                         *)
C29_Witness ==
  /\ Returned("performAllCalculations")
  /\ ret.tankMetrics # Null
  /\ ret.capacityStatus = "SHORTFALL"
  /\ ret.tankMetrics.isCoveringDeficit
  /\ IsNegative(ret.capacityMarginOrDeficitScfm)
  /\ IsPositive(ret.tankMetrics.referenceFlowScfm)
  /\ ret.tankMetrics.referenceFlowScfm # ret.totalDesignDemandScfm

(* No shortfall with a tank and a margin of exactly 0. *)
C29_WitnessExactMargin ==
  /\ Returned("performAllCalculations")
  /\ ret.tankMetrics # Null
  /\ ret.capacityStatus = "OK"
  /\ ret.capacityMarginOrDeficitScfm = Zero
  /\ ~ret.tankMetrics.isCoveringDeficit

IsSentinel(label) == label \in {"No feasible size", "N/A (Inactive)"}

(***************************************************************************)
(* C30: whenever sizePipe or calculateHeaderSizing recommends the label of *)
(* a candidate, the velocity, the pressure drop or outlet pressure and the *)
(* status reported with it are those of a row of status OK, also when two  *)
(* included candidates share a label.                                      *)
(***************************************************************************)
C30_RecommendedRowIsOk ==
  /\ (Returned("sizePipe") /\ ~IsSentinel(ret.recommended)) =>
       /\ ret.status = "OK"
       /\ \E i \in 1..Len(ret.table) :
            /\ ret.table[i].nominal = ret.recommended
            /\ ret.table[i].status = "OK"
            /\ ret.table[i].velocity = ret.velocity
            /\ ret.table[i].deltaP = ret.deltaP
            /\ FLe(ret.velocity, call.maxVelocity_fts)
  /\ (Returned("calculateHeaderSizing") /\ ret.results # Null
        /\ ~IsSentinel(ret.results.recommendedSize)) =>
       \E i \in 1..Len(ret.results.comparisonTable) :
         /\ ret.results.comparisonTable[i].nominal = ret.results.recommendedSize
         /\ ret.results.comparisonTable[i].status = "OK"
         /\ ret.results.comparisonTable[i].velocity = ret.results.velocity
         /\ ret.results.comparisonTable[i].outletPressure = ret.results.outletPressure
         /\ FLe(ret.results.velocity, call.geometry.maxLineVelocity)

(* Two included candidates share a label. *)
LabelShared(pipes) ==
  \E i, j \in 1..Len(pipes) :
    /\ i # j /\ pipes[i].selected /\ pipes[j].selected
    /\ pipes[i].nominal = pipes[j].nominal
    /\ pipes[i].id_in # pipes[j].id_in

(* The same when no label is shared by two included candidates of         *)
(* different bores.                                                       *)
C30_WhenLabelsDistinct ==
  \/ Returned("sizePipe") /\ LabelShared(call.candidatePipes)
  \/ Returned("calculateHeaderSizing") /\ LabelShared(call.pipes)
  \/ C30_RecommendedRowIsOk
====
